---- MODULE Spec2Model ----
(***************************************************************************)
(* A model of the anime-list-apis caching layer: the Cache store           *)
(* (cache/Cache.py), the value objects it holds (models/) and the API      *)
(* adapter that reads through it (api/ApiInterface.py, api/AnilistApi.py). *)
(*                                                                         *)
(* Time is counted in whole ticks of time.time().  Python's None is        *)
(* NoneVal for objects and NoId for integer ids.  Every object carries an  *)
(* identity (oid): two references are the same Python object exactly when  *)
(* their oids are equal, which is what lets copy.deepcopy be told apart    *)
(* from handing out the stored object itself.                              *)
(***************************************************************************)
EXTENDS Integers, Sequences, FiniteSets, TLC

VARIABLES
    now,            \* the value time.time() returns
    expiration,     \* Cache.expiration
    write_after,    \* Cache.write_after
    change_count,   \* Cache.change_count
    cache,          \* Cache.__cache: cache type -> site -> tag -> slot
    disk,           \* the JSON document in cache_file
    held,           \* the object the calling code holds a reference to
    ret,            \* what the last operation returned
    lastOp,         \* the last operation and its arguments
    nAdds,          \* history: public add calls that counted, since __init__
    wrote,          \* history: write() was called explicitly
    added,          \* history: key -> value of the adds that counted
    memo,           \* the store's slice of primitives: key -> value
    remote          \* the version of the records the remote service serves

vars == <<now, expiration, write_after, change_count, cache, disk, held,
          ret, lastOp, nAdds, wrote, added, memo, remote>>

-----------------------------------------------------------------------------
(* Bounds of the model *)

MaxTime == 2
MaxChanges == 3
MaxFlushTime == 1

-----------------------------------------------------------------------------
(* Enumerations and values *)

MediaTypes == {"ANIME", "MANGA"}
IdTypes == {"MYANIMELIST", "ANILIST", "KITSU"}
CacheTypes == {"MEDIA_DATA", "USER_DATA"}

NoId == 0
NoUser == <<>>
NoneVal == [cls |-> "None"]
Raised(exc) == [cls |-> "raise", exc |-> exc]

DefaultExpiration == 6000

\* Id.__init__: every site is present, the missing ones as None
Id(mal, anilist, kitsu) ==
    [t \in IdTypes |-> CASE t = "MYANIMELIST" -> mal
                         [] t = "ANILIST" -> anilist
                         [] OTHER -> kitsu]

\* an argument typed "int or Id"
AsInt(i) == [kind |-> "int", val |-> i]
AsId(ids) == [kind |-> "Id", ids |-> ids]

MediaData(media_type, id, content, oid) ==
    [cls |-> "MediaData", media_type |-> media_type, id |-> id,
     content |-> content, oid |-> oid]

MediaUserData(media_type, id, username, content, oid) ==
    [cls |-> "MediaUserData", media_type |-> media_type, id |-> id,
     username |-> username, content |-> content, oid |-> oid]

\* MediaListEntry.__init__: the attributes of both halves are taken over by
\* reference (moid, uoid: the identity of the objects they came from)
MediaListEntry(media_type, media_data, user_data) ==
    IF media_data.cls # "MediaData" \/ user_data.cls # "MediaUserData"
    THEN Raised("TypeError")
    ELSE IF media_data.media_type # media_type
            \/ user_data.media_type # media_type
    THEN Raised("TypeError")
    ELSE IF media_data.id # user_data.id
    THEN Raised("ValueError")
    ELSE [cls |-> "MediaListEntry", media_type |-> media_type,
          id |-> media_data.id, content |-> media_data.content,
          username |-> user_data.username, ucontent |-> user_data.content,
          moid |-> media_data.oid, uoid |-> user_data.oid]

get_media_data_of(entry) ==
    MediaData(entry.media_type, entry.id, entry.content, entry.moid)

get_user_data_of(entry) ==
    MediaUserData(entry.media_type, entry.id, entry.username,
                  entry.ucontent, entry.uoid)

\* structural equality (Serializable.__eq__): the identity plays no part
Value(obj) ==
    CASE obj.cls = "MediaData" ->
            [cls |-> obj.cls, media_type |-> obj.media_type, id |-> obj.id,
             content |-> obj.content]
      [] obj.cls = "MediaUserData" ->
            [cls |-> obj.cls, media_type |-> obj.media_type, id |-> obj.id,
             username |-> obj.username, content |-> obj.content]
      [] obj.cls = "MediaListEntry" ->
            [cls |-> obj.cls, media_type |-> obj.media_type, id |-> obj.id,
             content |-> obj.content, username |-> obj.username,
             ucontent |-> obj.ucontent]
      [] OTHER -> obj

-----------------------------------------------------------------------------
(* Serialization of the cached objects *)

serialize(obj) ==
    IF obj.cls = "MediaData"
    THEN [media_type |-> obj.media_type, id |-> obj.id,
          content |-> obj.content]
    ELSE [media_type |-> obj.media_type, media_id |-> obj.id,
          username |-> obj.username, content |-> obj.content]

deserialize(cache_type, data, oid) ==
    IF cache_type = "MEDIA_DATA"
    THEN MediaData(data.media_type, data.id, data.content, oid)
    ELSE MediaUserData(data.media_type, data.media_id, data.username,
                       data.content, oid)

-----------------------------------------------------------------------------
(* Cache: helpers *)

EmptyMap == [t \in {} |-> 0]

generate_empty_cache == [ct \in CacheTypes |-> [site \in IdTypes |-> EmptyMap]]

Str(i) == IF i = NoId THEN "None" ELSE ToString(i)

resolve_id(site_type, _id) ==
    IF _id.kind # "int" THEN _id.ids[site_type] ELSE _id.val

generate_id_tag(media_type, _id, username) ==
    IF username # NoUser
    THEN media_type \o "-" \o Str(_id) \o "-" \o username[1]
    ELSE media_type \o "-" \o Str(_id)

\* the identity of the object a slot holds
SlotOid(cache_type, site_type, tag) ==
    cache_type \o "/" \o site_type \o "/" \o tag

NoCopy(obj, oid) == obj

\* copy.deepcopy: an equal object with an identity of its own
deepcopy(obj, oid) == [obj EXCEPT !.oid = oid]

ExpiredAtTtl(t, timestamp, exp) == t - timestamp >= exp /\ exp >= 0

ExpiredNegative(t, timestamp, exp) == t - timestamp > exp

\* a lifetime of zero taken for no lifetime at all
ExpiredFromZero(t, timestamp, exp) == t - timestamp > exp /\ exp > 0

\* Cache.__get_cached: time.time() - timestamp > self.expiration >= 0
Expired(t, timestamp, exp) == t - timestamp > exp /\ exp >= 0

WriteLate(count, after) == count > after

WriteEarly(count, after) == count >= after - 1

\* Cache.__add_cached: self.change_count >= self.write_after
ShouldWrite(count, after) == count >= after

\* Cache.write: the document written for a store
write(c) ==
    [ct \in CacheTypes |-> [site \in IdTypes |->
        [tag \in DOMAIN c[ct][site] |->
            [timestamp |-> c[ct][site][tag].timestamp,
             data |-> serialize(c[ct][site][tag].data)]]]]

\* a load that reads the media data and leaves the user data out
load_media_data_only(doc) ==
    [ct \in CacheTypes |-> [site \in IdTypes |->
        IF ct = "USER_DATA" THEN EmptyMap
        ELSE [tag \in DOMAIN doc[ct][site] |->
                 [timestamp |-> doc[ct][site][tag].timestamp,
                  data |-> deserialize(ct, doc[ct][site][tag].data,
                                       SlotOid(ct, site, tag))]]]]

\* a load that stamps every record with the time of the load
load_restamped(doc) ==
    [ct \in CacheTypes |-> [site \in IdTypes |->
        [tag \in DOMAIN doc[ct][site] |->
            [timestamp |-> now,
             data |-> deserialize(ct, doc[ct][site][tag].data,
                                  SlotOid(ct, site, tag))]]]]

\* Cache.load: the store read from a document
load(doc) ==
    [ct \in CacheTypes |-> [site \in IdTypes |->
        [tag \in DOMAIN doc[ct][site] |->
            [timestamp |-> doc[ct][site][tag].timestamp,
             data |-> deserialize(ct, doc[ct][site][tag].data,
                                  SlotOid(ct, site, tag))]]]]

\* a store that keeps the slot it has and takes no second one
PutIfAbsent(c, ct, site, tag, slot) ==
    IF tag \in DOMAIN c[ct][site] THEN c
    ELSE [c EXCEPT ![ct][site] =
             [t \in DOMAIN c[ct][site] \cup {tag} |->
                 IF t = tag THEN slot ELSE c[ct][site][t]]]

Put(c, ct, site, tag, slot) ==
    [c EXCEPT ![ct][site] =
        [t \in DOMAIN c[ct][site] \cup {tag} |->
            IF t = tag THEN slot ELSE c[ct][site][t]]]

\* an eviction that empties the whole store
PopAll(c, ct, site, tag) == generate_empty_cache

Pop(c, ct, site, tag) ==
    [c EXCEPT ![ct][site] =
        [t \in DOMAIN c[ct][site] \ {tag} |-> c[ct][site][t]]]

\* The part of a Cache that add and get change
Store(c, count, doc, value) ==
    [cache |-> c, change_count |-> count, disk |-> doc, ret |-> value]

-----------------------------------------------------------------------------
(* Cache: adding *)

TagOf(site_type, _id, data) ==
    generate_id_tag(data.media_type, resolve_id(site_type, _id),
                    IF "username" \in DOMAIN data
                    THEN <<data.username>> ELSE NoUser)

add_cached(S, cache_type, site_type, _id, data, ignore_for_write_count, t, after) ==
    LET tag == TagOf(site_type, _id, data)
        c == Put(S.cache, cache_type, site_type, tag,
                 [timestamp |-> t,
                  data |-> deepcopy(data,
                                    SlotOid(cache_type, site_type, tag))])
        count == IF ~ignore_for_write_count
                 THEN S.change_count + 1 ELSE S.change_count
    IN  Store(c, count,
              IF ShouldWrite(count, after) THEN write(c) ELSE S.disk,
              NoneVal)

\* data.id.get(site_type) is None for a site the Id has no id of, and
\* __resolve_id then calls None.get
add_media_data(S, site_type, data, ignore_for_write_count, t, after) ==
    IF data.id[site_type] = NoId
    THEN [S EXCEPT !.ret = Raised("AttributeError")]
    ELSE add_cached(S, "MEDIA_DATA", site_type, AsInt(data.id[site_type]),
                    data, ignore_for_write_count, t, after)

add_media_user_data(S, site_type, _id, data, ignore_for_write_count, t, after) ==
    add_cached(S, "USER_DATA", site_type, _id, data, ignore_for_write_count,
               t, after)

\* t1, t2: time.time() when the media half and the user half are stamped
add_media_list_entry(S, site_type, data, ignore_for_write_count, t1, t2, after) ==
    LET S1 == add_media_data(S, site_type, get_media_data_of(data),
                             ignore_for_write_count, t1, after)
    IN  IF S1.ret # NoneVal
        THEN S1
        ELSE add_media_user_data(S1, site_type, AsId(data.id),
                                 get_user_data_of(data),
                                 ignore_for_write_count, t2, after)

-----------------------------------------------------------------------------
(* Cache: getting.  A get yields the store it leaves and the value it      *)
(* returns.                                                                *)

Got(c, value) == [cache |-> c, ret |-> value]

\* a get that takes the record of any site
get_cached_any_site(c, cache_type, site_type, media_type, _id, username, t, exp) ==
    LET tag == generate_id_tag(media_type, resolve_id(site_type, _id),
                               username)
        sites == {s \in IdTypes : tag \in DOMAIN c[cache_type][s]}
    IN  IF sites # {}
        THEN Got(c, deepcopy(c[cache_type][CHOOSE s \in sites : TRUE][tag].data,
                             "ret"))
        ELSE Got(c, NoneVal)

get_cached(c, cache_type, site_type, media_type, _id, username, t, exp) ==
    LET tag == generate_id_tag(media_type, resolve_id(site_type, _id),
                               username)
    IN  IF tag \in DOMAIN c[cache_type][site_type]
        THEN LET entry == c[cache_type][site_type][tag]
             IN  IF Expired(t, entry.timestamp, exp)
                 THEN Got(Pop(c, cache_type, site_type, tag), NoneVal)
                 ELSE Got(c, deepcopy(entry.data, "ret"))
        ELSE Got(c, NoneVal)

get_media_data(c, site_type, media_type, _id, t, exp) ==
    get_cached(c, "MEDIA_DATA", site_type, media_type, _id, NoUser, t, exp)

get_media_user_data(c, site_type, media_type, _id, username, t, exp) ==
    get_cached(c, "USER_DATA", site_type, media_type, _id, <<username>>, t,
               exp)

\* t1, t2: time.time() when the media half and the user half are looked up
get_media_list_entry(c, site_type, media_type, _id, username, t1, t2, exp) ==
    LET m == get_media_data(c, site_type, media_type, _id, t1, exp)
        u == get_media_user_data(m.cache, site_type, media_type, _id,
                                 username, t2, exp)
    IN  IF m.ret # NoneVal /\ u.ret # NoneVal
        THEN IF m.ret.media_type = u.ret.media_type
                /\ media_type = m.ret.media_type
             THEN Got(u.cache, MediaListEntry(media_type, m.ret, u.ret))
             ELSE Got(u.cache, NoneVal)
        ELSE Got(u.cache, NoneVal)

-----------------------------------------------------------------------------
(* The objects and arguments the calling code uses *)

IdA == Id(1, 1, NoId)
IdB == Id(1, NoId, NoId)
Usernames == {"u"}
CoreSites == {"MYANIMELIST"}
IdArgs == {AsInt(1), AsId(IdA), AsId(IdB)}

MediaPool(contents) == {MediaData("ANIME", IdA, c, "caller") : c \in contents}

UserPool(kinds, contents) ==
    {MediaUserData(p[1], p[2], u, c, "caller") :
        p \in kinds, u \in Usernames, c \in contents}

EntryPool(contents) ==
    {MediaListEntry("ANIME", m, MediaUserData("ANIME", IdA, u, m.content,
                                              "caller")) :
        m \in MediaPool(contents), u \in Usernames}

Expirations == {-1, 0, 1}
WriteAfters == {0, 1, 2, 3}
DefaultWriteAfter == 20

IsObject(x) == x.cls \in {"MediaData", "MediaUserData", "MediaListEntry"}

Key(cache_type, site_type, tag) == <<cache_type, site_type, tag>>

Keys(c) ==
    UNION {{Key(p[1], p[2], tag) : tag \in DOMAIN c[p[1]][p[2]]} :
              p \in CacheTypes \X IdTypes}

\* history: an add that counts is recorded as key -> value; one that does
\* not count and overwrites a recorded key ends that record
Record(h, counted, cache_type, site_type, _id, data) ==
    LET k == Key(cache_type, site_type, TagOf(site_type, _id, data))
    IN  IF counted
        THEN [x \in DOMAIN h \cup {k} |-> IF x = k THEN Value(data) ELSE h[x]]
        ELSE [x \in DOMAIN h \ {k} |-> h[x]]

-----------------------------------------------------------------------------
(* Initial state: Cache.__init__ on a location without a cache file writes *)
(* the empty store and loads it.                                           *)

InitWith(expirations, write_afters) ==
    /\ now = 0
    /\ expiration \in expirations
    /\ write_after \in write_afters
    /\ change_count = 0
    /\ disk = write(generate_empty_cache)
    /\ cache = load(write(generate_empty_cache))
    /\ held = NoneVal
    /\ ret = NoneVal
    /\ lastOp = [op |-> "__init__"]
    /\ nAdds = 0
    /\ wrote = FALSE
    /\ added = EmptyMap
    /\ memo = EmptyMap
    /\ remote = 1

\* time passes between two calls
Tick(limit) ==
    /\ now < limit
    /\ now' = now + 1
    /\ lastOp' = [op |-> "tick"]
    /\ ret' = NoneVal
    /\ UNCHANGED <<expiration, write_after, change_count, cache, disk, held,
                   nAdds, wrote, added, memo, remote>>

Current == Store(cache, change_count, disk, NoneVal)

\* the store an add leaves; keep: the caller keeps its reference to data
Added(S, data, ignore, keep) ==
    /\ cache' = S.cache
    /\ change_count' = S.change_count
    /\ disk' = S.disk
    /\ ret' = S.ret
    /\ nAdds' = IF ignore THEN nAdds ELSE nAdds + 1
    /\ held' = IF keep THEN data ELSE held
    /\ UNCHANGED <<expiration, write_after, wrote, memo, remote>>

AddMediaData(site_type, data, ignore, keep) ==
    /\ ignore \/ change_count < MaxChanges
    /\ Added(add_media_data(Current, site_type, data, ignore, now,
                            write_after), data, ignore, keep)
    /\ added' = Record(added, ~ignore, "MEDIA_DATA", site_type,
                       AsId(data.id), data)
    /\ lastOp' = [op |-> "add_media_data", site_type |-> site_type,
                  ignore |-> ignore,
                  keys |-> {Key("MEDIA_DATA", site_type,
                                TagOf(site_type, AsId(data.id), data))}]
    /\ UNCHANGED now

AddMediaUserData(site_type, _id, data, ignore, keep) ==
    /\ ignore \/ change_count < MaxChanges
    /\ Added(add_media_user_data(Current, site_type, _id, data, ignore, now,
                                 write_after), data, ignore, keep)
    /\ added' = Record(added, ~ignore, "USER_DATA", site_type, _id, data)
    /\ lastOp' = [op |-> "add_media_user_data", site_type |-> site_type,
                  ignore |-> ignore,
                  keys |-> {Key("USER_DATA", site_type,
                                TagOf(site_type, _id, data))}]
    /\ UNCHANGED now

\* t2: time.time() when the second half is stamped
AddMediaListEntry(site_type, data, ignore, keep, t2, limit) ==
    /\ ignore \/ change_count + 1 < MaxChanges
    /\ t2 \in {now, now + 1} /\ t2 <= limit
    /\ now' = t2
    /\ Added(add_media_list_entry(Current, site_type, data, ignore, now, t2,
                                  write_after), data, ignore, keep)
    /\ added' = Record(Record(added, ~ignore, "MEDIA_DATA", site_type,
                              AsId(data.id), get_media_data_of(data)),
                       ~ignore, "USER_DATA", site_type, AsId(data.id),
                       get_user_data_of(data))
    /\ lastOp' = [op |-> "add_media_list_entry", site_type |-> site_type,
                  ignore |-> ignore,
                  keys |-> {Key("MEDIA_DATA", site_type,
                                TagOf(site_type, AsId(data.id),
                                      get_media_data_of(data))),
                            Key("USER_DATA", site_type,
                                TagOf(site_type, AsId(data.id),
                                      get_user_data_of(data)))}]

\* the store and the result a get leaves; keep: the caller keeps the result
Returned(G, keep) ==
    /\ cache' = G.cache
    /\ ret' = G.ret
    /\ held' = IF keep /\ IsObject(G.ret) THEN G.ret ELSE held
    /\ UNCHANGED <<expiration, write_after, change_count, disk, nAdds,
                   wrote, added, memo, remote>>

GetMediaData(site_type, media_type, _id, keep) ==
    /\ Returned(get_media_data(cache, site_type, media_type, _id, now,
                               expiration), keep)
    /\ lastOp' = [op |-> "get_media_data", site_type |-> site_type,
                  media_type |-> media_type, _id |-> _id]
    /\ UNCHANGED now

GetMediaUserData(site_type, media_type, _id, username, keep) ==
    /\ Returned(get_media_user_data(cache, site_type, media_type, _id,
                                    username, now, expiration), keep)
    /\ lastOp' = [op |-> "get_media_user_data", site_type |-> site_type,
                  media_type |-> media_type, _id |-> _id,
                  username |-> username]
    /\ UNCHANGED now

\* t2: time.time() when the second half is looked up
GetMediaListEntry(site_type, media_type, _id, username, keep, t2, limit) ==
    /\ t2 \in {now, now + 1} /\ t2 <= limit
    /\ now' = t2
    /\ Returned(get_media_list_entry(cache, site_type, media_type, _id,
                                     username, now, t2, expiration), keep)
    /\ lastOp' = [op |-> "get_media_list_entry", site_type |-> site_type,
                  media_type |-> media_type, _id |-> _id,
                  username |-> username]

Write ==
    /\ disk' = write(cache)
    /\ wrote' = TRUE
    /\ ret' = NoneVal
    /\ lastOp' = [op |-> "write"]
    /\ UNCHANGED <<now, expiration, write_after, change_count, cache, held,
                   nAdds, added, memo, remote>>

Load ==
    /\ cache' = load(disk)
    /\ ret' = NoneVal
    /\ lastOp' = [op |-> "load"]
    /\ UNCHANGED <<now, expiration, write_after, change_count, disk, held,
                   nAdds, wrote, added, memo, remote>>

\* The calling code changes an attribute of the object it holds: every
\* reference to that object sees the change.
Changed(obj, target, c) ==
    IF obj.oid = target.oid /\ obj.cls = target.cls
    THEN [obj EXCEPT !.content = c] ELSE obj

ChangedEntry(obj, entry, c) ==
    IF obj.oid = (IF obj.cls = "MediaData" THEN entry.moid ELSE entry.uoid)
    THEN [obj EXCEPT !.content = c] ELSE obj

Mutate(c) ==
    /\ IsObject(held)
    /\ c # held.content
    /\ held' = IF held.cls = "MediaListEntry"
               THEN [held EXCEPT !.content = c, !.ucontent = c]
               ELSE [held EXCEPT !.content = c]
    /\ cache' = [ct \in CacheTypes |-> [site \in IdTypes |->
                    [tag \in DOMAIN cache[ct][site] |->
                        [cache[ct][site][tag] EXCEPT
                            !.data = IF held.cls = "MediaListEntry"
                                     THEN ChangedEntry(@, held, c)
                                     ELSE Changed(@, held, c)]]]]
    /\ lastOp' = [op |-> "mutate"]
    /\ UNCHANGED <<now, expiration, write_after, change_count, disk, ret,
                   nAdds, wrote, added, memo, remote>>

-----------------------------------------------------------------------------
(* The store in memory: lifetimes and list entries.  The adds are the ones *)
(* that leave the change count alone, as the API layer's are.              *)

AllKinds == {<<"ANIME", IdA>>, <<"ANIME", IdB>>, <<"MANGA", IdA>>}

Init == InitWith(Expirations, {DefaultWriteAfter})

Next ==
    \/ Tick(MaxTime)
    \/ \E site \in CoreSites, data \in MediaPool({1}) :
          AddMediaData(site, data, TRUE, FALSE)
    \/ \E site \in CoreSites, data \in UserPool(AllKinds, {1}) :
          \E _id \in {AsId(data.id), AsInt(data.id[site])} :
             AddMediaUserData(site, _id, data, TRUE, FALSE)
    \/ \E site \in CoreSites, data \in EntryPool({1}), t2 \in 0 .. MaxTime :
          AddMediaListEntry(site, data, TRUE, FALSE, t2, MaxTime)
    \/ \E site \in CoreSites, mt \in MediaTypes, _id \in IdArgs :
          GetMediaData(site, mt, _id, FALSE)
    \/ \E site \in CoreSites, mt \in MediaTypes, _id \in IdArgs,
          u \in Usernames :
          GetMediaUserData(site, mt, _id, u, FALSE)
    \/ \E site \in CoreSites, mt \in MediaTypes, _id \in IdArgs,
          u \in Usernames, t2 \in 0 .. MaxTime :
          GetMediaListEntry(site, mt, _id, u, FALSE, t2, MaxTime)
    \/ Load

Spec == Init /\ [][Next]_vars

-----------------------------------------------------------------------------
(* The store and its document: counted adds, write() and load()            *)

InitFlush == InitWith({-1, 0}, WriteAfters)

NextFlush ==
    \/ Tick(MaxFlushTime)
    \/ \E site \in CoreSites, data \in MediaPool({1}), ignore \in BOOLEAN :
          AddMediaData(site, data, ignore, FALSE)
    \/ \E site \in CoreSites, ignore \in BOOLEAN,
          data \in UserPool({<<"ANIME", IdA>>, <<"ANIME", IdB>>}, {1}) :
          AddMediaUserData(site, AsId(data.id), data, ignore, FALSE)
    \/ \E site \in CoreSites, data \in EntryPool({1}), ignore \in BOOLEAN :
          AddMediaListEntry(site, data, ignore, FALSE, now, MaxFlushTime)
    \/ \E site \in CoreSites :
          GetMediaData(site, "ANIME", AsInt(1), FALSE)
    \/ \E site \in CoreSites, u \in Usernames :
          GetMediaUserData(site, "ANIME", AsInt(1), u, FALSE)
    \/ Write
    \/ Load

SpecFlush == InitFlush /\ [][NextFlush]_vars

-----------------------------------------------------------------------------
(* The store and the objects of its callers: the caller keeps a reference  *)
(* to what it passes in and to what it gets back, and changes it.          *)

InitCopy == InitWith({-1}, {DefaultWriteAfter})

NextCopy ==
    \/ \E site \in CoreSites, data \in MediaPool({1, 2}) :
          AddMediaData(site, data, TRUE, TRUE)
    \/ \E site \in CoreSites,
          data \in UserPool({<<"ANIME", IdA>>}, {1, 2}) :
          AddMediaUserData(site, AsId(data.id), data, TRUE, TRUE)
    \/ \E site \in CoreSites, data \in EntryPool({1, 2}) :
          AddMediaListEntry(site, data, TRUE, TRUE, now, MaxTime)
    \/ \E site \in CoreSites :
          GetMediaData(site, "ANIME", AsInt(1), TRUE)
    \/ \E site \in CoreSites, u \in Usernames :
          GetMediaUserData(site, "ANIME", AsInt(1), u, TRUE)
    \/ \E site \in CoreSites, u \in Usernames :
          GetMediaListEntry(site, "ANIME", AsInt(1), u, TRUE, now, MaxTime)
    \/ \E c \in {1, 2} : Mutate(c)

SpecCopy == InitCopy /\ [][NextCopy]_vars

-----------------------------------------------------------------------------
(* What a get was asked for, read off the record of the operation *)

IsSingleGet(o) == o.op \in {"get_media_data", "get_media_user_data"}

IsGet(o) == IsSingleGet(o) \/ o.op = "get_media_list_entry"

IsAdd(o) ==
    o.op \in {"add_media_data", "add_media_user_data", "add_media_list_entry"}

GetType(o) == IF o.op = "get_media_data" THEN "MEDIA_DATA" ELSE "USER_DATA"

GetTag(o) ==
    generate_id_tag(o.media_type, resolve_id(o.site_type, o._id),
                    IF o.op = "get_media_data" THEN NoUser
                    ELSE <<o.username>>)

\* the slots of the site the get reads
GetSlots(c, o) == c[GetType(o)][o.site_type]

-----------------------------------------------------------------------------
(* Lifetimes *)

\* C1: with a lifetime ttl >= 0, a get of a slot stamped t0 misses and evicts
\* the slot exactly when now - t0 > ttl; up to and including now - t0 = ttl it
\* returns the stored value and leaves the store alone.
C1_TtlBoundary ==
    [][(/\ IsSingleGet(lastOp')
        /\ expiration >= 0
        /\ GetTag(lastOp') \in DOMAIN GetSlots(cache, lastOp'))
       => LET tag == GetTag(lastOp')
              slot == GetSlots(cache, lastOp')[tag]
          IN  IF now - slot.timestamp > expiration
              THEN /\ ret' = NoneVal
                   /\ cache' = Pop(cache, GetType(lastOp'),
                                   lastOp'.site_type, tag)
              ELSE /\ Value(ret') = Value(slot.data)
                   /\ cache' = cache]_vars

\* a get at exactly now - t0 = ttl > 0 has returned the stored value
C1_Witness ==
    /\ IsSingleGet(lastOp)
    /\ expiration > 0
    /\ IsObject(ret)
    /\ GetTag(lastOp) \in DOMAIN GetSlots(cache, lastOp)
    /\ now - GetSlots(cache, lastOp)[GetTag(lastOp)].timestamp = expiration

\* C2: with a negative lifetime no get ever removes a slot, and a get of a
\* slot returns its value however old it is: a slot only goes by load().
C2_NegativeNeverExpires ==
    [][expiration < 0
       => /\ IsGet(lastOp') => cache' = cache
          /\ (/\ IsSingleGet(lastOp')
              /\ GetTag(lastOp') \in DOMAIN GetSlots(cache, lastOp'))
             => Value(ret')
                  = Value(GetSlots(cache, lastOp')[GetTag(lastOp')].data)
          /\ ~(Keys(cache) \subseteq Keys(cache')) => lastOp'.op = "load"]_vars

\* a get has returned a record MaxTime ticks old under a negative lifetime
C2_Witness ==
    /\ IsSingleGet(lastOp)
    /\ expiration < 0
    /\ IsObject(ret)
    /\ GetTag(lastOp) \in DOMAIN GetSlots(cache, lastOp)
    /\ now - GetSlots(cache, lastOp)[GetTag(lastOp)].timestamp = MaxTime

-----------------------------------------------------------------------------
(* List entries *)

\* C6: a list-entry get returns the entry paired from the two halves when
\* both are in the store and unexpired, and returns None, raising nothing,
\* when either half is absent, of another media kind or expired.
C6_PairedOrNone ==
    [][lastOp'.op = "get_media_list_entry"
       => LET o == lastOp'
              mslots == cache["MEDIA_DATA"][o.site_type]
              uslots == cache["USER_DATA"][o.site_type]
              mtag == generate_id_tag(o.media_type,
                                      resolve_id(o.site_type, o._id), NoUser)
              utag == generate_id_tag(o.media_type,
                                      resolve_id(o.site_type, o._id),
                                      <<o.username>>)
              live(slots, tag, t) ==
                  /\ tag \in DOMAIN slots
                  /\ ~(expiration >= 0 /\ t - slots[tag].timestamp > expiration)
          IN  IF live(mslots, mtag, now) /\ live(uslots, utag, now')
              THEN /\ ret'.cls = "MediaListEntry"
                   /\ Value(get_media_data_of(ret')) = Value(mslots[mtag].data)
                   /\ Value(get_user_data_of(ret')) = Value(uslots[utag].data)
              ELSE ret' = NoneVal]_vars

-----------------------------------------------------------------------------
(* Copies *)

\* C7: the store holds copies of its own: changing an object after it was
\* added, or an object a get returned, changes no slot of the store, so no
\* later get returns anything else for it.
C7_IndependentCopies ==
    [][lastOp'.op = "mutate" => write(cache') = write(cache)]_vars

\* the caller has changed the object it added, or was returned, for a slot
\* the store holds
C7_Witness ==
    /\ lastOp.op = "mutate"
    /\ held.cls = "MediaData"
    /\ "ANIME-1" \in DOMAIN cache["MEDIA_DATA"]["MYANIMELIST"]
    /\ cache["MEDIA_DATA"]["MYANIMELIST"]["ANIME-1"].data.content
         # held.content

-----------------------------------------------------------------------------
(* Flushing to the document *)

\* What a store newly constructed on the document (default lifetime) returns
\* for the key k of a record with value v
FreshGet(k, v) ==
    Value(get_cached(load(disk), k[1], k[2], v.media_type,
                     AsInt(v.id[k[2]]),
                     IF k[1] = "USER_DATA" THEN <<v.username>> ELSE NoUser,
                     now, DefaultExpiration).ret)

\* the store still holds the record the history has for key k
StillHeld(k) ==
    /\ k \in Keys(cache)
    /\ Value(cache[k[1]][k[2]][k[3]].data) = added[k]

\* C3 as stated: after exactly write_after counted adds and no write(), a
\* newly constructed store returns every record that was added.
C3_AllAddedOnDisk ==
    (write_after >= 1 /\ nAdds = write_after /\ ~wrote)
    => \A k \in DOMAIN added : FreshGet(k, added[k]) = added[k]

\* C3: after exactly write_after counted adds and no write(), a newly
\* constructed store returns every added record the store itself still
\* holds: one that a get evicted or load() dropped before the flush is not
\* in the document.
C3_HeldAddedOnDisk ==
    (write_after >= 1 /\ nAdds = write_after /\ ~wrote)
    => \A k \in DOMAIN added :
          StillHeld(k) => FreshGet(k, added[k]) = added[k]

\* the second of two counted adds has just flushed both records
C3_Witness ==
    /\ write_after = 2 /\ nAdds = 2 /\ ~wrote
    /\ IsAdd(lastOp) /\ ~lastOp.ignore
    /\ Cardinality(DOMAIN added) = 2
    /\ \A k \in DOMAIN added : StillHeld(k) /\ FreshGet(k, added[k]) = added[k]

\* C4 as stated: after write_after - 1 counted adds and no write(), a newly
\* constructed store does not return the record added last.
C4_LastAddNotOnDisk ==
    (/\ write_after >= 1 /\ nAdds = write_after - 1 /\ ~wrote
     /\ IsAdd(lastOp) /\ ~lastOp.ignore /\ ret = NoneVal)
    => \A k \in lastOp.keys : FreshGet(k, added[k]) = NoneVal

\* C4: while the change count (one per stored half: a list entry counts two)
\* is below write_after and there was no write(), a newly constructed store
\* does not return the record added last.
C4_BelowThresholdNotOnDisk ==
    (/\ write_after >= 1 /\ change_count < write_after /\ ~wrote
     /\ IsAdd(lastOp) /\ ~lastOp.ignore /\ ret = NoneVal)
    => \A k \in lastOp.keys : FreshGet(k, added[k]) = NoneVal

\* a counted add has left the change count one below write_after
C4_Witness ==
    /\ write_after >= 2 /\ change_count = write_after - 1 /\ ~wrote
    /\ IsAdd(lastOp) /\ ~lastOp.ignore /\ ret = NoneVal
    /\ \A k \in lastOp.keys : StillHeld(k) /\ FreshGet(k, added[k]) = NoneVal

\* C5: the add that brings the change count to write_after writes the whole
\* store to the document and sets the change count back to zero.
C5_FlushResetsCounter ==
    [][(/\ IsAdd(lastOp') /\ ~lastOp'.ignore
        /\ write_after >= 1
        /\ change_count < write_after
        /\ change_count' >= write_after)
       => disk' = write(cache') /\ change_count' = 0]_vars

-----------------------------------------------------------------------------
(* The remote service: an anime known as 1 on ANILIST and 2 on             *)
(* MYANIMELIST, an anime known as 3 on ANILIST that MYANIMELIST does not   *)
(* have (idMal is null), and user "u"'s list entries for them.  A query is *)
(* answered or fails; what is served changes when the remote is updated.   *)

MaxApiTime == 1
MaxRateLimited == 2
Versions == {1, 2}

RemoteId == Id(2, 1, NoId)
RemoteIdNoMal == Id(NoId, 3, NoId)
Catalog == {RemoteId, RemoteIdNoMal}

\* the media of the remote whose id of type id_type is q
Find(media_type, id_type, q) ==
    {r \in Catalog : media_type = "ANIME" /\ q # NoId /\ r[id_type] = q}

Only(F) == CHOOSE r \in F : TRUE

\* the "data" of an answer
Data(F) == [cls |-> "data", media |-> F]

\* AnilistApi.__graphql_query: the data, or None when the answer has errors
graphql_query(answered, found, data) ==
    IF answered /\ found THEN data ELSE NoneVal

\* AnilistApi.__generate_media_data on the answer to a Media query
generate_media_data(media_type, rid, version) ==
    MediaData(media_type, rid, version, "fetched")

\* AnilistApi.__generate_media_user_data on the answer to a MediaList query
generate_media_user_data(media_type, rid, username, version) ==
    MediaUserData(media_type, rid, username, version, "fetched")

-----------------------------------------------------------------------------
(* Cache: the entry points the API layer calls *)

\* Cache.add: the add for the class of the object
add(S, site_type, data, ignore_for_write_count, t, after) ==
    CASE data.cls = "MediaData" ->
            add_media_data(S, site_type, data, ignore_for_write_count, t,
                           after)
      [] data.cls = "MediaUserData" ->
            add_media_user_data(S, site_type, AsId(data.id), data,
                                ignore_for_write_count, t, after)
      [] OTHER ->
            add_media_list_entry(S, site_type, data, ignore_for_write_count,
                                 t, t, after)

\* Cache.add_primitive
add_primitive(m, key, value) ==
    [k \in DOMAIN m \cup {key} |-> IF k = key THEN value ELSE m[k]]

\* Cache.get_primitive: the value, or None (NoId)
get_primitive(m, key) == IF key \in DOMAIN m THEN m[key] ELSE NoId

-----------------------------------------------------------------------------
(* AnilistApi.  A fetch yields its result, the number of queries it sent   *)
(* to the remote and the primitives it leaves.                             *)

Fetched(value, calls, m) == [ret |-> value, calls |-> calls, memo |-> m]

MalKey(media_type, mal_id) == "mal-" \o media_type \o "-" \o Str(mal_id)

StoreNothing(m, media_type, mal_id, anilist_id) == m

\* a memo that keeps the MYANIMELIST id for its own translation
StoreMalId(m, media_type, mal_id, anilist_id) ==
    add_primitive(m, MalKey(media_type, mal_id), mal_id)

cache_mal_to_anilist_map(m, media_type, mal_id, anilist_id) ==
    add_primitive(m, MalKey(media_type, mal_id), anilist_id)

get_anilist_id_from_mal_id(m, media_type, mal_id, answered) ==
    LET cached == get_primitive(m, MalKey(media_type, mal_id))
        F == Find(media_type, "MYANIMELIST", mal_id)
    IN  IF cached # NoId THEN Fetched(cached, 0, m)
        ELSE IF mal_id = NoId THEN Fetched(NoId, 0, m)
        ELSE IF graphql_query(answered, F # {}, Data(F)) = NoneVal
        THEN Fetched(NoId, 1, m)
        ELSE Fetched(Only(F)["ANILIST"], 1,
                     cache_mal_to_anilist_map(m, media_type, mal_id,
                                              Only(F)["ANILIST"]))

\* a resolution that translates the MYANIMELIST id whether or not the query
\* takes it
resolve_query_id_translating(m, media_type, _id, allow_mal, answered) ==
    LET T == get_anilist_id_from_mal_id(m, media_type, _id["MYANIMELIST"],
                                        answered)
    IN  IF _id["ANILIST"] = NoId
        THEN [ret |-> T.ret, id_type |-> "ANILIST", calls |-> T.calls,
              memo |-> T.memo]
        ELSE [ret |-> _id["ANILIST"], id_type |-> "ANILIST", calls |-> 0,
              memo |-> m]

\* the id to query with and its type, or None; ret is NoId for None
resolve_query_id(m, media_type, _id, allow_mal, answered) ==
    LET mal_id == _id["MYANIMELIST"]
        anilist_id == _id["ANILIST"]
    IN  IF anilist_id = NoId
        THEN IF allow_mal
             THEN [ret |-> mal_id, id_type |-> "MYANIMELIST", calls |-> 0,
                   memo |-> m]
             ELSE LET T == get_anilist_id_from_mal_id(m, media_type, mal_id,
                                                      answered)
                  IN  [ret |-> T.ret, id_type |-> "ANILIST",
                       calls |-> T.calls, memo |-> T.memo]
        ELSE [ret |-> anilist_id, id_type |-> "ANILIST", calls |-> 0,
              memo |-> m]

_get_data(m, media_type, _id, answered, version) ==
    LET q == resolve_query_id(m, media_type, _id, TRUE, answered)
    IN  IF q.ret = NoId THEN Fetched(NoneVal, 0, m)
        ELSE LET F == Find(media_type, q.id_type, q.ret)
                 data == IF graphql_query(answered, F # {}, Data(F)) = NoneVal
                         THEN NoneVal
                         ELSE generate_media_data(media_type, Only(F),
                                                  version)
             IN  IF data = NoneVal THEN Fetched(NoneVal, 1, m)
                 ELSE Fetched(data, 1,
                              cache_mal_to_anilist_map(
                                  m, media_type, data.id["MYANIMELIST"],
                                  data.id["ANILIST"]))

\* aT, aL, aM: whether the translation, the MediaList and the Media query
\* are answered
_get_list_entry(m, media_type, _id, username, aT, aL, aM, version) ==
    LET q == resolve_query_id(m, media_type, _id, FALSE, aT)
    IN  IF q.ret = NoId THEN Fetched(NoneVal, q.calls, q.memo)
        ELSE LET F == Find(media_type, "ANILIST", q.ret)
                 result == graphql_query(aL, F # {}, Data(F))
             IN  IF result = NoneVal
                 THEN Fetched(NoneVal, q.calls + 1, q.memo)
                 ELSE LET M == _get_data(q.memo, media_type, _id, aM, version)
                          user_data == generate_media_user_data(
                                           media_type, Only(F), username,
                                           version)
                      IN  Fetched(MediaListEntry(media_type, M.ret, user_data),
                                  q.calls + 1 + M.calls, M.memo)

_get_user_data(m, media_type, _id, username, aT, aL, aM, version) ==
    LET E == _get_list_entry(m, media_type, _id, username, aT, aL, aM,
                             version)
    IN  IF E.ret.cls = "MediaListEntry"
        THEN [E EXCEPT !.ret = get_user_data_of(E.ret)]
        ELSE E

\* the entries of the user's list at the remote, in the order it sends them
UserList == <<RemoteId, RemoteIdNoMal>>

List(items) == [cls |-> "list", items |-> items]

RECURSIVE list_entries(_, _, _, _, _)
\* the loop of AnilistApi._get_list over the first n entries: ret is the
\* entries built, or the exception of a constructor
list_entries(m, media_type, username, version, n) ==
    IF n = 0 THEN Fetched(List(<<>>), 1, m)
    ELSE LET P == list_entries(m, media_type, username, version, n - 1)
             media_data == generate_media_data(media_type, UserList[n],
                                               version)
             user_data == generate_media_user_data(media_type, UserList[n],
                                                   username, version)
             entry == MediaListEntry(media_type, media_data, user_data)
         IN  IF P.ret.cls = "raise" THEN P
             ELSE IF entry.cls = "raise" THEN Fetched(entry, 1, P.memo)
             ELSE Fetched(List(Append(P.ret.items, entry)), 1,
                          cache_mal_to_anilist_map(
                              P.memo, media_type,
                              media_data.id["MYANIMELIST"],
                              media_data.id["ANILIST"]))

\* aL: whether the MediaListCollection query is answered
_get_list(m, media_type, username, aL, version) ==
    IF graphql_query(aL, media_type = "ANIME", Data(UserList)) = NoneVal
    THEN Fetched(List(<<>>), 1, m)
    ELSE list_entries(m, media_type, username, version, Len(UserList))

_get_user_data_list(m, media_type, username, aL, version) ==
    LET L == _get_list(m, media_type, username, aL, version)
    IN  IF L.ret.cls = "raise" THEN L
        ELSE [L EXCEPT !.ret = List([i \in DOMAIN L.ret.items |->
                                        get_user_data_of(L.ret.items[i])])]

-----------------------------------------------------------------------------
(* ApiInterface: the public getters, as AnilistApi inherits them *)

ApiIdType == "ANILIST"

generate_id_obj(_id) ==
    IF _id.kind = "int"
    THEN [t \in IdTypes |-> IF t = ApiIdType THEN _id.val ELSE NoId]
    ELSE _id.ids

\* the fresh argument of a call: left out, or passed
FreshArgs == {"omitted", "True", "False"}

\* the value of the fresh parameter: the one passed, or the getter's default
get_data_fresh(arg) == IF arg = "omitted" THEN FALSE ELSE arg = "True"

get_user_data_fresh(arg) == IF arg = "omitted" THEN TRUE ELSE arg = "True"

get_list_entry_fresh(arg) == IF arg = "omitted" THEN FALSE ELSE arg = "True"

\* ApiInterface.__cache: dont_write is left at its default, True
api_cache(c, data, t) ==
    IF data = NoneVal THEN Store(c, change_count, disk, NoneVal)
    ELSE add(Store(c, change_count, disk, NoneVal), ApiIdType, data, TRUE, t,
             write_after)

\* AnilistApi.__graphql_query: a request answered "Too Many Requests." is
\* sent again after time.sleep(70), and so is the one sent again.  limited
\* is the number of such answers before the one that counts.
Backoff == 70

graphql_requests(limited) == limited + 1

\* The body the three getters share: G is the lookup in the store, F the
\* fetch, made when fresh is set or the lookup missed, t the time at which
\* the fetch is over.  An exception of the lookup, the fetch or the add
\* leaves the getter.
Through(G, fresh, F, t) ==
    IF G.ret.cls = "raise"
    THEN [cache |-> G.cache, ret |-> G.ret, calls |-> 0, memo |-> memo]
    ELSE IF fresh \/ G.ret = NoneVal
    THEN IF F.ret.cls = "raise"
         THEN [cache |-> G.cache, ret |-> F.ret, calls |-> F.calls,
               memo |-> F.memo]
         ELSE LET S == api_cache(G.cache, F.ret, t)
              IN  [cache |-> S.cache,
                   ret |-> IF S.ret = NoneVal THEN F.ret ELSE S.ret,
                   calls |-> F.calls, memo |-> F.memo]
    ELSE [cache |-> G.cache, ret |-> G.ret, calls |-> 0, memo |-> memo]

RECURSIVE cache_all(_, _, _, _)
\* the loop of get_list and get_user_data_list: the first n items are
\* handed to __cache; ret is None, or the exception of an add
cache_all(c, items, n, t) ==
    IF n = 0 THEN Store(c, change_count, disk, NoneVal)
    ELSE LET P == cache_all(c, items, n - 1, t)
         IN  IF P.ret.cls = "raise" THEN P
             ELSE api_cache(P.cache, items[n], t)

\* get_list and get_user_data_list: F is the fetch of the list
ThroughList(F, t) ==
    IF F.ret.cls = "raise"
    THEN [cache |-> cache, ret |-> F.ret, calls |-> F.calls, memo |-> F.memo]
    ELSE LET S == cache_all(cache, F.ret.items, Len(F.ret.items), t)
         IN  [cache |-> S.cache,
              ret |-> IF S.ret = NoneVal THEN F.ret ELSE S.ret,
              calls |-> F.calls, memo |-> F.memo]

\* the time after limited waits of the backoff
After(limited) == now + limited * Backoff

\* limited: the "Too Many Requests." answers the queries of the call got;
\* the requests sent are those and one per query
Answered(R, name, media_type, _id, username, fresh, limited) ==
    /\ limited = 0 \/ R.calls >= 1
    /\ After(limited) <= MaxRateLimited * Backoff
    /\ now' = After(limited)
    /\ cache' = R.cache
    /\ ret' = R.ret
    /\ memo' = R.memo
    /\ lastOp' = [op |-> name, media_type |-> media_type, _id |-> _id,
                  username |-> username, fresh |-> fresh, calls |-> R.calls,
                  requests |-> R.calls - 1 + graphql_requests(limited)]
    /\ UNCHANGED <<expiration, write_after, change_count, disk, held,
                   nAdds, wrote, added, remote>>

ApiGetData(media_type, _id, fresh, aM, limited) ==
    /\ fresh \in FreshArgs
    /\ Answered(Through(get_media_data(cache, "ANILIST", media_type, _id, now,
                                    expiration),
                     get_data_fresh(fresh),
                     _get_data(memo, media_type, generate_id_obj(_id), aM,
                               remote),
                     After(limited)),
             "get_data", media_type, _id, "", fresh, limited)

ApiGetUserData(media_type, _id, username, fresh, aT, aL, aM, limited) ==
    /\ fresh \in FreshArgs
    /\ Answered(Through(get_media_user_data(cache, "ANILIST", media_type, _id,
                                         username, now, expiration),
                     get_user_data_fresh(fresh),
                     _get_user_data(memo, media_type, generate_id_obj(_id),
                                    username, aT, aL, aM, remote),
                     After(limited)),
             "get_user_data", media_type, _id, username, fresh, limited)

ApiGetListEntry(media_type, _id, username, fresh, aT, aL, aM, limited) ==
    /\ fresh \in FreshArgs
    /\ Answered(Through(get_media_list_entry(cache, "ANILIST", media_type, _id,
                                          username, now, now, expiration),
                     get_list_entry_fresh(fresh),
                     _get_list_entry(memo, media_type, generate_id_obj(_id),
                                     username, aT, aL, aM, remote),
                     After(limited)),
             "get_list_entry", media_type, _id, username, fresh, limited)

\* the remote service changes what it serves
ApiGetList(media_type, username, aL, limited) ==
    /\ aL \in BOOLEAN
    /\ Answered(ThroughList(_get_list(memo, media_type, username, aL, remote),
                            After(limited)),
                "get_list", media_type, AsInt(NoId), username, "omitted",
                limited)

ApiGetUserDataList(media_type, username, aL, limited) ==
    /\ aL \in BOOLEAN
    /\ Answered(ThroughList(_get_user_data_list(memo, media_type, username,
                                                aL, remote),
                            After(limited)),
                "get_user_data_list", media_type, AsInt(NoId), username,
                "omitted", limited)

RemoteUpdate ==
    /\ \E v \in Versions \ {remote} : remote' = v
    /\ ret' = NoneVal
    /\ lastOp' = [op |-> "remote_update"]
    /\ UNCHANGED <<now, expiration, write_after, change_count, cache, disk,
                   held, nAdds, wrote, added, memo>>

ApiIdArgs ==
    {AsInt(1), AsId(RemoteId), AsId(Id(2, NoId, NoId)),
     AsId(Id(NoId, NoId, 3))}

\* which of the translation, MediaList and Media queries of one call are
\* answered: all of them, or all but one
Answers ==
    {<<TRUE, TRUE, TRUE>>, <<FALSE, TRUE, TRUE>>, <<TRUE, FALSE, TRUE>>,
     <<TRUE, TRUE, FALSE>>}

InitApi == InitWith({-1, 0}, {DefaultWriteAfter})

NextApi ==
    \/ Tick(MaxApiTime)
    \/ \E _id \in ApiIdArgs, fresh \in FreshArgs, aM \in BOOLEAN :
          ApiGetData("ANIME", _id, fresh, aM, 0)
    \/ \E _id \in ApiIdArgs, u \in Usernames, fresh \in FreshArgs,
          a \in Answers :
          ApiGetUserData("ANIME", _id, u, fresh, a[1], a[2], a[3], 0)
    \/ \E _id \in ApiIdArgs, u \in Usernames, fresh \in FreshArgs,
          a \in Answers :
          ApiGetListEntry("ANIME", _id, u, fresh, a[1], a[2], a[3], 0)
    \/ RemoteUpdate

SpecApi == InitApi /\ [][NextApi]_vars

-----------------------------------------------------------------------------
(* Reading through the store *)

ApiOps == {"get_data", "get_user_data", "get_list_entry"}

\* the tags of the slots a getter's item lives in, for ANILIST id i
ItemKeys(o, i) ==
    LET mkey == Key("MEDIA_DATA", "ANILIST",
                    generate_id_tag(o.media_type, i, NoUser))
        ukey == Key("USER_DATA", "ANILIST",
                    generate_id_tag(o.media_type, i, <<o.username>>))
    IN  CASE o.op = "get_data" -> {mkey}
          [] o.op = "get_user_data" -> {ukey}
          [] OTHER -> {mkey, ukey}

\* the slot of key k is in store c and unexpired at time t
Live(c, k, t) ==
    /\ k \in Keys(c)
    /\ ~(expiration >= 0 /\ t - c[k[1]][k[2]][k[3]].timestamp > expiration)

\* the value a getter returns for its item out of store c
ItemValue(c, o, i) ==
    LET m == c["MEDIA_DATA"]["ANILIST"][generate_id_tag(o.media_type, i,
                                                        NoUser)].data
        u == c["USER_DATA"]["ANILIST"][generate_id_tag(o.media_type, i,
                                                       <<o.username>>)].data
    IN  CASE o.op = "get_data" -> Value(m)
          [] o.op = "get_user_data" -> Value(u)
          [] OTHER -> Value(MediaListEntry(o.media_type, m, u))

\* C8: a single-item getter called without the fresh argument, for an item
\* that is in the store and unexpired, returns the stored value and sends no
\* query to the remote.
C8_CachedNoRemoteCall ==
    [][(/\ lastOp'.op \in ApiOps
        /\ lastOp'.fresh = "omitted"
        /\ resolve_id("ANILIST", lastOp'._id) # NoId
        /\ \A k \in ItemKeys(lastOp', resolve_id("ANILIST", lastOp'._id)) :
              Live(cache, k, now))
       => /\ lastOp'.calls = 0
          /\ Value(ret') = ItemValue(cache, lastOp',
                                     resolve_id("ANILIST", lastOp'._id))]_vars

\* C9: a single-item getter called with fresh=True always sends a query to
\* the remote, and when it has fetched a value, the same getter called next
\* for the same key with fresh=False returns that value.
C9_FreshRefetches ==
    [][/\ (lastOp'.op \in ApiOps /\ lastOp'.fresh = "True")
          => lastOp'.calls >= 1
       /\ (/\ lastOp.op \in ApiOps /\ lastOp.fresh = "True" /\ IsObject(ret)
           /\ lastOp' = [lastOp EXCEPT !.fresh = "False",
                                       !.calls = lastOp'.calls,
                                       !.requests = lastOp'.requests])
          => Value(ret') = Value(ret)]_vars

\* C10: once the media was fetched and stored and the translation of its
\* MYANIMELIST id is memoized, a non-fresh get_data given an Id with only
\* the MYANIMELIST id is a hit on the slot of the media's ANILIST id: it
\* returns the stored value and sends no query to the remote.
C10_MalOnlyHitsSameSlot ==
    [][(/\ lastOp'.op = "get_data"
        /\ lastOp'.fresh = "False"
        /\ lastOp'._id = AsId(Id(RemoteId["MYANIMELIST"], NoId, NoId))
        /\ MalKey(lastOp'.media_type, RemoteId["MYANIMELIST"]) \in DOMAIN memo
        /\ \A k \in ItemKeys(lastOp', RemoteId["ANILIST"]) :
              Live(cache, k, now))
       => /\ lastOp'.calls = 0
          /\ Value(ret') = ItemValue(cache, lastOp', RemoteId["ANILIST"])]_vars

-----------------------------------------------------------------------------
(* Resolving identifiers: the adapter over both media of the remote, with  *)
(* the translation called directly as well                                 *)

IntVal(n) == IF n = NoId THEN NoneVal ELSE [cls |-> "int", val |-> n]

GetAnilistIdFromMalId(media_type, mal_id, answered, limited) ==
    LET T == get_anilist_id_from_mal_id(memo, media_type, mal_id, answered)
    IN  /\ limited = 0 \/ T.calls >= 1
        /\ After(limited) <= MaxRateLimited * Backoff
        /\ now' = After(limited)
        /\ ret' = IntVal(T.ret)
        /\ memo' = T.memo
        /\ lastOp' = [op |-> "get_anilist_id_from_mal_id",
                      media_type |-> media_type, mal_id |-> mal_id,
                      calls |-> T.calls,
                      requests |-> T.calls - 1 + graphql_requests(limited)]
        /\ UNCHANGED <<expiration, write_after, change_count, cache, disk,
                       held, nAdds, wrote, added, remote>>

\* self.__resolve_query_id(media_type, _id, allow_mal)
ResolveQueryId(media_type, _id, allow_mal, answered) ==
    LET q == resolve_query_id(memo, media_type, _id, allow_mal, answered)
    IN  /\ ret' = IF q.ret = NoId THEN NoneVal
                  ELSE [cls |-> "tuple", query_id |-> q.ret,
                        id_type |-> q.id_type]
        /\ memo' = q.memo
        /\ lastOp' = [op |-> "resolve_query_id", media_type |-> media_type,
                      _id |-> _id, allow_mal |-> allow_mal,
                      calls |-> q.calls]
        /\ UNCHANGED <<now, expiration, write_after, change_count, cache,
                       disk, held, nAdds, wrote, added, remote>>

\* Ids with both ids, with one id, with the id of no media, with neither id
QueryIds ==
    {Id(2, 1, NoId), Id(2, NoId, NoId), Id(NoId, 3, NoId), Id(5, NoId, NoId),
     Id(NoId, NoId, 3)}

\* int ids, Ids with one id, and the id of no media
ResolveIdArgs ==
    {AsInt(1), AsInt(3), AsId(Id(2, NoId, NoId)), AsId(Id(NoId, NoId, 3))}

MalIdArgs == {NoId, 2, 5}

InitResolve == InitWith({-1}, {DefaultWriteAfter})

NextResolve ==
    \/ \E _id \in ResolveIdArgs, fresh \in {"omitted", "True"},
          aM \in BOOLEAN :
          ApiGetData("ANIME", _id, fresh, aM, 0)
    \/ \E _id \in ResolveIdArgs, u \in Usernames, a \in Answers :
          ApiGetUserData("ANIME", _id, u, "omitted", a[1], a[2], a[3], 0)
    \/ \E _id \in ResolveIdArgs, u \in Usernames, a \in Answers,
          fresh \in {"omitted", "True"} :
          ApiGetListEntry("ANIME", _id, u, fresh, a[1], a[2], a[3], 0)
    \/ \E mal_id \in MalIdArgs, answered \in BOOLEAN :
          GetAnilistIdFromMalId("ANIME", mal_id, answered, 0)
    \/ \E u \in Usernames, aL \in BOOLEAN : ApiGetList("ANIME", u, aL, 0)
    \/ \E u \in Usernames, aL \in BOOLEAN :
          ApiGetUserDataList("ANIME", u, aL, 0)
    \/ \E _id \in QueryIds, allow_mal \in BOOLEAN, answered \in BOOLEAN :
          ResolveQueryId("ANIME", _id, allow_mal, answered)

SpecResolve == InitResolve /\ [][NextResolve]_vars

\* an Id the adapter can use neither directly nor by translation
Unusable(_id) ==
    /\ _id.kind = "Id"
    /\ _id.ids["ANILIST"] = NoId
    /\ _id.ids["MYANIMELIST"] = NoId

\* C11: for an Id with neither an ANILIST nor a MYANIMELIST id, get_data and
\* get_list_entry return None, whatever was done on the adapter and the
\* store before.
C11_UnusableIdGivesNone ==
    (lastOp.op \in {"get_data", "get_list_entry"} /\ Unusable(lastOp._id))
    => ret = NoneVal

\* C13: translating a MYANIMELIST id that is not memoized sends exactly one
\* query and memoizes the ANILIST id it gets; translating one that is
\* memoized returns the memoized ANILIST id and sends no query.
C13_TranslationMemoized ==
    [][(lastOp'.op = "get_anilist_id_from_mal_id" /\ lastOp'.mal_id # NoId)
       => LET key == MalKey(lastOp'.media_type, lastOp'.mal_id)
          IN  IF key \in DOMAIN memo
              THEN /\ lastOp'.calls = 0
                   /\ ret' = IntVal(memo[key])
                   /\ memo' = memo
              ELSE /\ lastOp'.calls = 1
                   /\ ret' # NoneVal
                      => key \in DOMAIN memo' /\ ret' = IntVal(memo'[key])]_vars

\* a translation has been answered from the memo
C13_Witness ==
    /\ lastOp.op = "get_anilist_id_from_mal_id"
    /\ lastOp.mal_id = RemoteId["MYANIMELIST"]
    /\ lastOp.calls = 0
    /\ ret = IntVal(RemoteId["ANILIST"])

\* C14: translating a null MYANIMELIST id returns None, whatever was fetched
\* and translated before.
C14_NullMalIdGivesNone ==
    (lastOp.op = "get_anilist_id_from_mal_id" /\ lastOp.mal_id = NoId)
    => ret = NoneVal

\* the three getters and the two list operations, with some query of theirs
\* answered by an error
ErringGet ==
    \E _id \in ResolveIdArgs, u \in Usernames, a \in Answers \ {<<TRUE, TRUE, TRUE>>}, fresh \in {"omitted", "True"} :
        \/ ApiGetData("ANIME", _id, fresh, a[3], 0)
        \/ ApiGetUserData("ANIME", _id, u, "omitted", a[1], a[2], a[3], 0)
        \/ ApiGetListEntry("ANIME", _id, u, fresh, a[1], a[2], a[3], 0)

ErringList ==
    \E u \in Usernames :
        \/ ApiGetList("ANIME", u, FALSE, 0)
        \/ ApiGetUserDataList("ANIME", u, FALSE, 0)

\* C12: a public operation one of whose remote queries is answered by an
\* error does not raise: a getter returns None or an item, a list operation
\* returns the empty list.
C12_RemoteErrorNeverRaises ==
    [][/\ ErringGet => ret'.cls # "raise"
       /\ ErringList => ret' = List(<<>>)]_vars

-----------------------------------------------------------------------------
(* The queries of the API under rate limiting *)

RateLimits == 0 .. MaxRateLimited

InitRate == InitWith({-1}, {DefaultWriteAfter})

NextRate ==
    \/ \E _id \in ResolveIdArgs, fresh \in {"omitted", "True"},
          aM \in BOOLEAN, limited \in RateLimits :
          ApiGetData("ANIME", _id, fresh, aM, limited)
    \/ \E _id \in ResolveIdArgs, u \in Usernames, a \in Answers,
          limited \in RateLimits :
          ApiGetListEntry("ANIME", _id, u, "omitted", a[1], a[2], a[3],
                          limited)
    \/ \E mal_id \in MalIdArgs, answered \in BOOLEAN,
          limited \in RateLimits :
          GetAnilistIdFromMalId("ANIME", mal_id, answered, limited)
    \/ \E u \in Usernames, aL \in BOOLEAN, limited \in RateLimits :
          ApiGetList("ANIME", u, aL, limited)

SpecRate == InitRate /\ [][NextRate]_vars

\* C15: a query answered with the rate-limit response is sent once more
\* after the backoff and no further: an operation sends at most two
\* requests for each of its queries.
C15_AtMostTwoRequestsPerQuery ==
    lastOp.op # "__init__" => lastOp.requests <= 2 * lastOp.calls

-----------------------------------------------------------------------------
(* The codec of the value objects (models/).  A Python value that may turn *)
(* up in a serialized map is a record with one field that names its type;  *)
(* None is NoneVal; an enumeration member is its name under the name of    *)
(* its enumeration.                                                        *)

PyInt(n) == [int |-> n]
PyStr(s) == [str |-> s]
PyBool(b) == [bool |-> b]
PyDict(f) == [dict |-> f]
PyList(q) == [list |-> q]

Member(enum, name) == enum :> name
Name(member) == member[CHOOSE k \in DOMAIN member : TRUE]

\* type(obj), by name
TypeOf(v) ==
    IF DOMAIN v = IdTypes THEN "Id"
    ELSE IF "cls" \in DOMAIN v THEN v.cls
    ELSE CHOOSE k \in DOMAIN v : TRUE

IsRaise(v) == TypeOf(v) = "raise"

\* Serializable.type_check; kinds: the concrete classes typ stands for
type_check(obj, kinds, none_allowed) ==
    IF none_allowed /\ obj = NoneVal THEN TRUE
    ELSE TypeOf(obj) \in kinds

\* Serializable.ensure_type: None, or the TypeError
ensure_type(obj, kinds, none_allowed) ==
    IF type_check(obj, kinds, none_allowed) THEN NoneVal
    ELSE Raised("TypeError")

\* F of the value of v, which is worked out once
Let(v, F(_)) == CHOOSE r \in {F(x) : x \in {v}} : TRUE

\* the first exception among the values of steps taken in this order, or None
RECURSIVE FirstRaise(_)
FirstRaise(steps) ==
    IF steps = <<>> THEN NoneVal
    ELSE IF IsRaise(Head(steps)) THEN Head(steps)
    ELSE FirstRaise(Tail(steps))

\* data[key] on a dict
Item(data, key) ==
    IF key \in DOMAIN data.dict THEN data.dict[key] ELSE Raised("KeyError")

\* Enum[key]: the member, or the KeyError of a key that names none
EnumLookup(enum, names, key) ==
    IF IsRaise(key) THEN key
    ELSE IF TypeOf(key) = "str" /\ key.str \in names
    THEN Member(enum, key.str)
    ELSE Raised("KeyError")

\* Serializable.deserialize around a class's _deserialize: result is what
\* _deserialize gives on a dict
Serializable_deserialize(data, result) ==
    IF ensure_type(data, {"dict"}, FALSE) # NoneVal THEN Raised("TypeError")
    ELSE Let(result, LAMBDA r : IF r = Raised("KeyError")
                                THEN Raised("ValueError") ELSE r)

-----------------------------------------------------------------------------
(* Score *)

ScoreTypes == {"THREE_POINT", "FIVE_POINT", "TEN_POINT", "TEN_POINT_DECIMAL", "PERCENTAGE"}

ScoreTypeValue(score_type) ==
    CASE Name(score_type) = "THREE_POINT" -> 3
      [] Name(score_type) = "FIVE_POINT" -> 5
      [] Name(score_type) = "TEN_POINT" -> 10
      [] Name(score_type) = "TEN_POINT_DECIMAL" -> 20
      [] OTHER -> 100

Score(score, score_type) ==
    IF ensure_type(score, {"int"}, FALSE) # NoneVal THEN Raised("TypeError")
    ELSE IF ensure_type(score_type, {"ScoreType"}, FALSE) # NoneVal
    THEN Raised("TypeError")
    ELSE IF score.int < 0 \/ score.int > ScoreTypeValue(score_type)
    THEN Raised("ValueError")
    ELSE [cls |-> "Score", score |-> score.int, mode |-> score_type]

\* round(n / d) for n >= 0, d > 0: to the nearest, a half to the even one
round(n, d) ==
    LET q == n \div d
        r == n % d
    IN  IF 2 * r > d \/ (2 * r = d /\ q % 2 = 1) THEN q + 1 ELSE q

\* a conversion that keeps the value of the source scale
Score_keep_value(score, source, dest) == score

\* Score.__convert
Score_convert(score, source, dest) ==
    round(score * ScoreTypeValue(dest), ScoreTypeValue(source))

\* Score.get
Score_get(o, score_type) ==
    IF score_type = NoneVal THEN o.score
    ELSE Score_convert(o.score, o.mode, score_type)

Score_serialize(o) == PyDict(Name(o.mode) :> PyInt(o.score))

Score__deserialize(data) ==
    IF Cardinality(DOMAIN data.dict) # 1 THEN Raised("ValueError")
    ELSE LET score_type == CHOOSE k \in DOMAIN data.dict : TRUE
             score == data.dict[score_type]
         IN  IF ensure_type(score, {"int"}, FALSE) # NoneVal
             THEN Raised("TypeError")
             ELSE IF IsRaise(EnumLookup("ScoreType", ScoreTypes,
                                        PyStr(score_type)))
             THEN Raised("KeyError")
             ELSE Score(score, Member("ScoreType", score_type))

Score_deserialize(data) ==
    Serializable_deserialize(data, Score__deserialize(data))

-----------------------------------------------------------------------------
(* Date *)

IsLeap(year) == (year % 4 = 0 /\ year % 100 # 0) \/ year % 400 = 0

DaysIn(year, month) ==
    IF month = 2 THEN (IF IsLeap(year) THEN 29 ELSE 28)
    ELSE IF month \in {4, 6, 9, 11} THEN 30 ELSE 31

\* Date.__ensure_date_correct: the types, then datetime(year, month, day)
ensure_date_correct(year, month, day) ==
    LET typed == FirstRaise(<<ensure_type(year, {"int"}, FALSE),
                              ensure_type(month, {"int"}, FALSE),
                              ensure_type(day, {"int"}, FALSE)>>)
    IN  IF typed # NoneVal THEN typed
        ELSE IF /\ year.int \in 1 .. 9999
                /\ month.int \in 1 .. 12
                /\ day.int \in 1 .. DaysIn(year.int, month.int)
        THEN NoneVal
        ELSE Raised("ValueError")

Date(year, month, day) ==
    IF ensure_date_correct(year, month, day) # NoneVal
    THEN ensure_date_correct(year, month, day)
    ELSE [cls |-> "Date", year |-> year.int, month |-> month.int,
          day |-> day.int]

Date_serialize(o) ==
    PyDict([k \in {"year", "month", "day"} |-> PyInt(o[k])])

Date__deserialize(data) ==
    Let(<<Item(data, "year"), Item(data, "month"), Item(data, "day")>>,
        LAMBDA c : IF FirstRaise(c) # NoneVal THEN FirstRaise(c)
                   ELSE Date(c[1], c[2], c[3]))

Date_deserialize(data) ==
    Serializable_deserialize(data, Date__deserialize(data))

-----------------------------------------------------------------------------
(* Title *)

TitleTypes == {"ROMAJI", "ENGLISH", "JAPANESE"}

TitleTypeValue(title_type) ==
    CASE title_type = "ROMAJI" -> 1
      [] title_type = "ENGLISH" -> 2
      [] OTHER -> 3

\* a constructor whose scan stops at the first type found, the one of the
\* greatest value
Title_first_found(titles, default) ==
    LET kept == {k \in DOMAIN titles : type_check(titles[k], {"str"}, FALSE)}
        greatest == CHOOSE k \in kept :
                        \A j \in kept : TitleTypeValue(k) >= TitleTypeValue(j)
    IN  IF ensure_type(default, {"TitleType"}, FALSE) # NoneVal
        THEN Raised("TypeError")
        ELSE IF kept = {} THEN Raised("ValueError")
        ELSE [cls |-> "Title",
              titles |-> [k \in TitleTypes |->
                             IF k \in kept THEN titles[k] ELSE NoneVal],
              default |-> IF Name(default) \in kept THEN default
                          ELSE Member("TitleType", greatest)]

\* Title.__init__: titles maps the names of some title types to values.  Only the strings
\* are kept; a default without a title gives way to the last type found in
\* the descending scan, the one of the least value.
Title(titles, default) ==
    LET kept == {k \in DOMAIN titles : type_check(titles[k], {"str"}, FALSE)}
        least == CHOOSE k \in kept :
                     \A j \in kept : TitleTypeValue(k) <= TitleTypeValue(j)
    IN  IF ensure_type(default, {"TitleType"}, FALSE) # NoneVal
        THEN Raised("TypeError")
        ELSE IF kept = {} THEN Raised("ValueError")
        ELSE [cls |-> "Title",
              titles |-> [k \in TitleTypes |->
                             IF k \in kept THEN titles[k] ELSE NoneVal],
              default |-> IF Name(default) \in kept THEN default
                          ELSE Member("TitleType", least)]

\* a serialization that forgets the default title type
Title_serialize_romaji(o) ==
    PyDict([k \in TitleTypes \cup {"default"} |->
               IF k = "default" THEN PyStr("ROMAJI") ELSE o.titles[k]])

Title_serialize(o) ==
    PyDict([k \in TitleTypes \cup {"default"} |->
               IF k = "default" THEN PyStr(Name(o.default))
               ELSE o.titles[k]])

Title__deserialize(data) ==
    LET default == EnumLookup("TitleType", TitleTypes,
                              Item(data, "default"))
        rest == DOMAIN data.dict \ {"default"}
    IN  IF IsRaise(default) THEN default
        ELSE IF ~(rest \subseteq TitleTypes) THEN Raised("KeyError")
        ELSE Title([k \in rest |-> data.dict[k]], default)

Title_deserialize(data) ==
    Serializable_deserialize(data, Title__deserialize(data))

-----------------------------------------------------------------------------
(* Id: serialization and equality run over all the sites, the missing ones *)
(* as null                                                                 *)

Id_serialize(o) ==
    PyDict([t \in IdTypes |-> IF o[t] = NoId THEN NoneVal ELSE PyInt(o[t])])

Id__deserialize(data) ==
    LET given == DOMAIN data.dict
    IN  IF ~(given \subseteq IdTypes) THEN Raised("KeyError")
        ELSE IF \E t \in given :
                    ~type_check(data.dict[t], {"int"}, TRUE)
        THEN Raised("TypeError")
        ELSE IF \A t \in given : data.dict[t] = NoneVal
        THEN Raised("ValueError")
        ELSE [t \in IdTypes |->
                 IF t \in given /\ data.dict[t] # NoneVal
                 THEN data.dict[t].int ELSE NoId]

Id_deserialize(data) ==
    Serializable_deserialize(data, Id__deserialize(data))

-----------------------------------------------------------------------------
(* Relation *)

RelationTypes == {"PREQUEL", "SEQUEL", "PARENT", "SIDE_STORY", "SUMMARY", "CHARACTER", "SPIN_OFF", "OTHER", "ADAPTATION", "ALTERNATIVE"}

Relation(source, source_type, dest, dest_type, relation_type) ==
    IF TypeOf(source) # "Id" \/ TypeOf(dest) # "Id"
    THEN Raised("TypeError")
    ELSE IF TypeOf(source_type) # "MediaType"
            \/ TypeOf(dest_type) # "MediaType"
    THEN Raised("TypeError")
    ELSE IF TypeOf(relation_type) # "RelationType" THEN Raised("TypeError")
    ELSE IF source = dest /\ source_type = dest_type
    THEN Raised("ValueError")
    ELSE [cls |-> "Relation", source |-> source,
          source_type |-> source_type, dest |-> dest,
          dest_type |-> dest_type, type |-> relation_type]

Relation_serialize(o) ==
    PyDict([k \in {"source", "source_type", "dest", "dest_type", "type"} |->
               CASE k = "source" -> Id_serialize(o.source)
                 [] k = "source_type" -> PyStr(Name(o.source_type))
                 [] k = "dest" -> Id_serialize(o.dest)
                 [] k = "dest_type" -> PyStr(Name(o.dest_type))
                 [] OTHER -> PyStr(Name(o.type))])

\* a nested X.deserialize(data[key]): the KeyError of the missing key, or
\* what X.deserialize makes of the value
Nested(data, key, result) == IF key \in DOMAIN data.dict THEN result ELSE Raised("KeyError")

Relation__deserialize(data) ==
    Let([source |-> Nested(data, "source",
                           Id_deserialize(data.dict["source"])),
         source_type |-> EnumLookup("MediaType", MediaTypes,
                                    Item(data, "source_type")),
         dest |-> Nested(data, "dest", Id_deserialize(data.dict["dest"])),
         dest_type |-> EnumLookup("MediaType", MediaTypes,
                                  Item(data, "dest_type")),
         type |-> EnumLookup("RelationType", RelationTypes,
                             Item(data, "type"))],
        LAMBDA c :
            LET steps == <<c.source, c.source_type, c.dest, c.dest_type,
                           c.type>>
            IN  IF FirstRaise(steps) # NoneVal THEN FirstRaise(steps)
                ELSE Relation(c.source, c.source_type, c.dest, c.dest_type,
                              c.type))

Relation_deserialize(data) ==
    Serializable_deserialize(data, Relation__deserialize(data))

-----------------------------------------------------------------------------
(* MediaData, AnimeData, MangaData *)

ReleasingStatuses == {"FINISHED", "RELEASING", "NOT_RELEASED", "CANCELLED"}

Anime == Member("MediaType", "ANIME")
Manga == Member("MediaType", "MANGA")

\* MediaData.__init__: None, or the TypeError of the first check that fails
MediaData__init__(media_type, _id, title, relations, releasing_status, releasing_start, releasing_end, cover_url) ==
    FirstRaise(<<ensure_type(media_type, {"MediaType"}, FALSE),
                 ensure_type(_id, {"Id"}, FALSE),
                 ensure_type(title, {"Title"}, FALSE),
                 ensure_type(relations, {"list"}, FALSE),
                 IF \A i \in DOMAIN relations.list :
                        type_check(relations.list[i], {"Relation"}, FALSE)
                 THEN NoneVal ELSE Raised("TypeError"),
                 ensure_type(releasing_status, {"ReleasingStatus"}, FALSE),
                 ensure_type(releasing_start, {"Date"}, TRUE),
                 ensure_type(releasing_end, {"Date"}, TRUE),
                 ensure_type(cover_url, {"str"}, TRUE)>>)

AnimeData(_id, title, relations, releasing_status, releasing_start, releasing_end, cover_url, episode_count, episode_duration) ==
    LET checks == FirstRaise(<<
            MediaData__init__(Anime, _id, title, relations, releasing_status,
                              releasing_start, releasing_end, cover_url),
            ensure_type(episode_count, {"int"}, TRUE),
            ensure_type(episode_duration, {"int"}, TRUE)>>)
    IN  IF checks # NoneVal THEN checks
        ELSE [cls |-> "AnimeData", media_type |-> Anime, id |-> _id,
              title |-> title, relations |-> relations,
              releasing_status |-> releasing_status,
              releasing_start |-> releasing_start,
              releasing_end |-> releasing_end, cover_url |-> cover_url,
              episode_count |-> episode_count,
              episode_duration |-> episode_duration]

MangaData(_id, title, relations, releasing_status, releasing_start, releasing_end, cover_url, chapter_count, volume_count) ==
    LET checks == FirstRaise(<<
            MediaData__init__(Manga, _id, title, relations, releasing_status,
                              releasing_start, releasing_end, cover_url),
            ensure_type(chapter_count, {"int"}, TRUE),
            ensure_type(volume_count, {"int"}, TRUE)>>)
    IN  IF checks # NoneVal THEN checks
        ELSE [cls |-> "MangaData", media_type |-> Manga, id |-> _id,
              title |-> title, relations |-> relations,
              releasing_status |-> releasing_status,
              releasing_start |-> releasing_start,
              releasing_end |-> releasing_end, cover_url |-> cover_url,
              chapter_count |-> chapter_count,
              volume_count |-> volume_count]

\* a date attribute that may be None, serialized
Optional_serialize(date) ==
    IF date = NoneVal THEN NoneVal ELSE Date_serialize(date)

\* MediaData._serialize, and the keys the subclass adds to it
MediaData_serialize(o) ==
    LET common == [k \in {"media_type", "id", "title", "relations", "releasing_status", "releasing_start", "releasing_end", "cover_url"} |->
            CASE k = "media_type" -> PyStr(Name(o.media_type))
              [] k = "id" -> Id_serialize(o.id)
              [] k = "title" -> Title_serialize(o.title)
              [] k = "relations" ->
                    PyList([i \in DOMAIN o.relations.list |->
                               Relation_serialize(o.relations.list[i])])
              [] k = "releasing_status" -> PyStr(Name(o.releasing_status))
              [] k = "releasing_start" -> Optional_serialize(o.releasing_start)
              [] k = "releasing_end" -> Optional_serialize(o.releasing_end)
              [] OTHER -> o.cover_url]
        specific == IF o.cls = "AnimeData"
                    THEN [episode_count |-> o.episode_count,
                          episode_duration |-> o.episode_duration]
                    ELSE [chapter_count |-> o.chapter_count,
                          volume_count |-> o.volume_count]
    IN  PyDict(common @@ specific)

\* MediaData.get_class_for_media_type
MediaData_get_class_for_media_type(media_type) ==
    IF media_type = Anime THEN "AnimeData" ELSE "MangaData"

\* iterating a value: its elements in order, or the TypeError of a value
\* that is not iterable
Iterate(v) ==
    CASE TypeOf(v) = "list" -> v.list
      [] TypeOf(v) = "str" -> [i \in 1 .. Len(v.str) |-> PyStr("c")]
      [] TypeOf(v) = "dict" ->
            [i \in 1 .. Cardinality(DOMAIN v.dict) |-> PyStr("k")]
      [] OTHER -> Raised("TypeError")

\* list(map(Relation.deserialize, data["relations"]))
Relations_deserialize(v) ==
    IF IsRaise(v) THEN v
    ELSE IF TypeOf(v) \notin {"list", "str", "dict"} THEN Raised("TypeError")
    ELSE Let([i \in DOMAIN Iterate(v) |-> Relation_deserialize(Iterate(v)[i])],
             LAMBDA each : IF FirstRaise(each) # NoneVal THEN FirstRaise(each)
                           ELSE PyList(each))

\* a date that may be null: data[date], then Date.deserialize unless None
Optional_deserialize(v) ==
    IF IsRaise(v) \/ v = NoneVal THEN v ELSE Date_deserialize(v)

\* MediaData._get_common_deserialized_components: the components, or the
\* first exception
MediaData_get_common_deserialized_components(data) ==
    Let([cls |-> "components",
         media_type |-> EnumLookup("MediaType", MediaTypes,
                                   Item(data, "media_type")),
         id |-> Nested(data, "id", Id_deserialize(data.dict["id"])),
         title |-> Nested(data, "title",
                          Title_deserialize(data.dict["title"])),
         relations |-> Relations_deserialize(Item(data, "relations")),
         releasing_status |-> EnumLookup("ReleasingStatus", ReleasingStatuses,
                                         Item(data, "releasing_status")),
         cover_url |-> Item(data, "cover_url"),
         releasing_start |->
             Optional_deserialize(Item(data, "releasing_start")),
         releasing_end |-> Optional_deserialize(Item(data, "releasing_end"))],
        LAMBDA c :
            LET steps == <<c.media_type, c.id, c.title, c.relations,
                           c.releasing_status, c.cover_url, c.releasing_start,
                           c.releasing_end>>
            IN  IF FirstRaise(steps) # NoneVal THEN FirstRaise(steps) ELSE c)

\* _get_specific_deserialized_components of AnimeData and MangaData
MediaData_get_specific_deserialized_components(_cls, data) ==
    LET first == Item(data, IF _cls = "AnimeData" THEN "episode_count"
                            ELSE "chapter_count")
        second == Item(data, IF _cls = "AnimeData" THEN "episode_duration"
                             ELSE "volume_count")
    IN  IF FirstRaise(<<first, second>>) # NoneVal
        THEN FirstRaise(<<first, second>>)
        ELSE [cls |-> "components", first |-> first, second |-> second]

\* MediaSerializable._deserialize on MediaData or a subclass of it
MediaData__deserialize(data) ==
    Let([kind |-> EnumLookup("MediaType", MediaTypes,
                             Item(data, "media_type")),
         c |-> MediaData_get_common_deserialized_components(data)],
        LAMBDA d :
            IF IsRaise(d.kind) THEN d.kind
            ELSE IF IsRaise(d.c) THEN d.c
            ELSE Let(MediaData_get_specific_deserialized_components(
                         MediaData_get_class_for_media_type(d.kind), data),
                     LAMBDA s :
                         IF IsRaise(s) THEN s
                         ELSE IF MediaData_get_class_for_media_type(d.kind)
                                 = "AnimeData"
                         THEN AnimeData(d.c.id, d.c.title, d.c.relations,
                                        d.c.releasing_status,
                                        d.c.releasing_start,
                                        d.c.releasing_end, d.c.cover_url,
                                        s.first, s.second)
                         ELSE MangaData(d.c.id, d.c.title, d.c.relations,
                                        d.c.releasing_status,
                                        d.c.releasing_start,
                                        d.c.releasing_end, d.c.cover_url,
                                        s.first, s.second)))

MediaData_deserialize(data) ==
    Serializable_deserialize(data, MediaData__deserialize(data))

-----------------------------------------------------------------------------
(* MediaUserData, AnimeUserData, MangaUserData.  The user data carries the *)
(* id of its media, serialized under "media_id".                           *)

ConsumingStatuses == {"PLANNING", "CURRENT", "PAUSED", "DROPPED", "COMPLETED", "REPEATING"}

\* the part of the constructor that takes the id of the media
MediaUserData_id(_id) == ensure_type(_id, {"Id"}, FALSE)

\* MediaUserData.__init__: None, or the TypeError of the first check that
\* fails
MediaUserData__init__(media_type, _id, username, score, consuming_status, consuming_start, consuming_end) ==
    FirstRaise(<<ensure_type(media_type, {"MediaType"}, FALSE),
                 MediaUserData_id(_id),
                 ensure_type(username, {"str"}, FALSE),
                 ensure_type(score, {"Score"}, FALSE),
                 ensure_type(consuming_status, {"ConsumingStatus"}, FALSE),
                 ensure_type(consuming_start, {"Date"}, TRUE),
                 ensure_type(consuming_end, {"Date"}, TRUE)>>)

AnimeUserData(_id, username, score, consuming_status, consuming_start, consuming_end, episode_progress) ==
    LET checks == FirstRaise(<<
            MediaUserData__init__(Anime, _id, username, score,
                                  consuming_status, consuming_start,
                                  consuming_end),
            ensure_type(episode_progress, {"int"}, FALSE)>>)
    IN  IF checks # NoneVal THEN checks
        ELSE [cls |-> "AnimeUserData", media_type |-> Anime, id |-> _id,
              username |-> username, score |-> score,
              consuming_status |-> consuming_status,
              consuming_start |-> consuming_start,
              consuming_end |-> consuming_end,
              episode_progress |-> episode_progress]

MangaUserData(_id, username, score, consuming_status, consuming_start, consuming_end, chapter_progress, volume_progress) ==
    LET checks == FirstRaise(<<
            MediaUserData__init__(Manga, _id, username, score,
                                  consuming_status, consuming_start,
                                  consuming_end),
            ensure_type(chapter_progress, {"int"}, FALSE),
            ensure_type(volume_progress, {"int"}, FALSE)>>)
    IN  IF checks # NoneVal THEN checks
        ELSE [cls |-> "MangaUserData", media_type |-> Manga, id |-> _id,
              username |-> username, score |-> score,
              consuming_status |-> consuming_status,
              consuming_start |-> consuming_start,
              consuming_end |-> consuming_end,
              chapter_progress |-> chapter_progress,
              volume_progress |-> volume_progress]

\* a validity that leaves the score out
ValidIgnoringScore(o) ==
    IF Name(o.consuming_status) \in {"COMPLETED", "REPEATING"}
    THEN o.consuming_start # NoneVal /\ o.consuming_end # NoneVal
    ELSE IF Name(o.consuming_status) \in {"DROPPED", "CURRENT", "PAUSED"}
    THEN o.consuming_start # NoneVal /\ o.consuming_end = NoneVal
    ELSE o.consuming_start = NoneVal /\ o.consuming_end = NoneVal

\* MediaUserData.is_valid_entry
is_valid_entry(o) ==
    LET score_zero == Score_get(o.score, Member("ScoreType", "PERCENTAGE")) = 0
        begin_none == o.consuming_start = NoneVal
        complete_none == o.consuming_end = NoneVal
    IN  IF Name(o.consuming_status) \in {"COMPLETED", "REPEATING"}
        THEN ~score_zero /\ ~begin_none /\ ~complete_none
        ELSE IF Name(o.consuming_status) \in {"DROPPED", "CURRENT", "PAUSED"}
        THEN ~begin_none /\ complete_none
        ELSE begin_none /\ complete_none /\ score_zero

\* the id of the media, as serialized with the user data
MediaUserData_id_serialize(o) == "media_id" :> Id_serialize(o.id)

\* MediaUserData._serialize, and the keys the subclass adds to it
MediaUserData_serialize(o) ==
    LET common == [k \in {"media_type", "username", "score", "consuming_status", "consuming_start", "consuming_end"} |->
            CASE k = "media_type" -> PyStr(Name(o.media_type))
              [] k = "username" -> o.username
              [] k = "score" -> Score_serialize(o.score)
              [] k = "consuming_status" -> PyStr(Name(o.consuming_status))
              [] k = "consuming_start" -> Optional_serialize(o.consuming_start)
              [] OTHER -> Optional_serialize(o.consuming_end)]
        specific == IF o.cls = "AnimeUserData"
                    THEN [episode_progress |-> o.episode_progress]
                    ELSE [chapter_progress |-> o.chapter_progress,
                          volume_progress |-> o.volume_progress]
    IN  PyDict(common @@ MediaUserData_id_serialize(o) @@ specific)

\* MediaUserData.get_class_for_media_type
MediaUserData_get_class_for_media_type(media_type) ==
    IF media_type = Anime THEN "AnimeUserData" ELSE "MangaUserData"

\* the id of the media, deserialized with the user data
MediaUserData_id_deserialize(data) ==
    Nested(data, "media_id", Id_deserialize(data.dict["media_id"]))

\* MediaUserData._get_common_deserialized_components
MediaUserData_get_common_deserialized_components(data) ==
    Let([cls |-> "components",
         media_type |-> EnumLookup("MediaType", MediaTypes,
                                   Item(data, "media_type")),
         id |-> MediaUserData_id_deserialize(data),
         username |-> Item(data, "username"),
         score |-> Nested(data, "score",
                          Score_deserialize(data.dict["score"])),
         consuming_status |-> EnumLookup("ConsumingStatus", ConsumingStatuses,
                                         Item(data, "consuming_status")),
         consuming_start |->
             Optional_deserialize(Item(data, "consuming_start")),
         consuming_end |-> Optional_deserialize(Item(data, "consuming_end"))],
        LAMBDA c :
            LET steps == <<c.media_type, c.id, c.username, c.score,
                           c.consuming_status, c.consuming_start,
                           c.consuming_end>>
            IN  IF FirstRaise(steps) # NoneVal THEN FirstRaise(steps) ELSE c)

\* _get_specific_deserialized_components of AnimeUserData and MangaUserData
MediaUserData_get_specific_deserialized_components(_cls, data) ==
    LET first == Item(data, IF _cls = "AnimeUserData" THEN "episode_progress"
                            ELSE "chapter_progress")
        second == IF _cls = "AnimeUserData" THEN NoneVal
                  ELSE Item(data, "volume_progress")
    IN  IF FirstRaise(<<first, second>>) # NoneVal
        THEN FirstRaise(<<first, second>>)
        ELSE [cls |-> "components", first |-> first, second |-> second]

\* MediaSerializable._deserialize on MediaUserData or a subclass of it
MediaUserData__deserialize(data) ==
    Let([kind |-> EnumLookup("MediaType", MediaTypes,
                             Item(data, "media_type")),
         c |-> MediaUserData_get_common_deserialized_components(data)],
        LAMBDA d :
            IF IsRaise(d.kind) THEN d.kind
            ELSE IF IsRaise(d.c) THEN d.c
            ELSE Let(MediaUserData_get_specific_deserialized_components(
                         MediaUserData_get_class_for_media_type(d.kind), data),
                     LAMBDA s :
                         IF IsRaise(s) THEN s
                         ELSE IF MediaUserData_get_class_for_media_type(d.kind)
                                 = "AnimeUserData"
                         THEN AnimeUserData(d.c.id, d.c.username, d.c.score,
                                            d.c.consuming_status,
                                            d.c.consuming_start,
                                            d.c.consuming_end, s.first)
                         ELSE MangaUserData(d.c.id, d.c.username, d.c.score,
                                            d.c.consuming_status,
                                            d.c.consuming_start,
                                            d.c.consuming_end, s.first,
                                            s.second)))

MediaUserData_deserialize(data) ==
    Serializable_deserialize(data, MediaUserData__deserialize(data))

-----------------------------------------------------------------------------
(* MediaListEntry, AnimeListEntry, MangaListEntry, with every attribute *)

\* a lookup that knows the anime class only
AlwaysAnimeListEntry(media_type) == "AnimeListEntry"

\* MediaListEntry.get_class_for_media_type
MediaListEntry_get_class_for_media_type(media_type) ==
    IF media_type = Anime THEN "AnimeListEntry" ELSE "MangaListEntry"

\* a constructor that checks the classes of the halves and nothing else
NoIdCheck(media_type, media_data, user_data) ==
    IF ensure_type(media_data, {MediaData_get_class_for_media_type(media_type)}, FALSE) # NoneVal
    THEN Raised("TypeError")
    ELSE IF ensure_type(user_data, {MediaUserData_get_class_for_media_type(media_type)}, FALSE) # NoneVal
    THEN Raised("TypeError")
    ELSE NoneVal

\* MediaListEntry.__init__: None, or the exception of the first check that
\* fails
MediaListEntry__init__(media_type, media_data, user_data) ==
    IF ensure_type(media_data, {MediaData_get_class_for_media_type(media_type)}, FALSE) # NoneVal
    THEN Raised("TypeError")
    ELSE IF ensure_type(user_data, {MediaUserData_get_class_for_media_type(media_type)}, FALSE) # NoneVal
    THEN Raised("TypeError")
    ELSE IF \/ media_data.id # user_data.id
            \/ media_data.media_type # user_data.media_type
            \/ media_type # media_data.media_type
    THEN Raised("ValueError")
    ELSE NoneVal

\* the attributes an entry takes over from its halves
EntryAttributes(media_data, user_data) ==
    [k \in (DOMAIN media_data \cup DOMAIN user_data) \ {"cls"} |->
        IF k \in DOMAIN media_data THEN media_data[k] ELSE user_data[k]]

AnimeListEntry(anime_data, user_data) ==
    IF MediaListEntry__init__(Anime, anime_data, user_data) # NoneVal
    THEN MediaListEntry__init__(Anime, anime_data, user_data)
    ELSE [cls |-> "AnimeListEntry"] @@ EntryAttributes(anime_data, user_data)

MangaListEntry(manga_data, user_data) ==
    IF MediaListEntry__init__(Manga, manga_data, user_data) # NoneVal
    THEN MediaListEntry__init__(Manga, manga_data, user_data)
    ELSE [cls |-> "MangaListEntry"] @@ EntryAttributes(manga_data, user_data)

\* AnimeListEntry.get_media_data, MangaListEntry.get_media_data
get_media_data_new(o) ==
    IF o.cls = "AnimeListEntry"
    THEN AnimeData(o.id, o.title, o.relations, o.releasing_status,
                   o.releasing_start, o.releasing_end, o.cover_url,
                   o.episode_count, o.episode_duration)
    ELSE MangaData(o.id, o.title, o.relations, o.releasing_status,
                   o.releasing_start, o.releasing_end, o.cover_url,
                   o.chapter_count, o.volume_count)

\* AnimeListEntry.get_user_data, MangaListEntry.get_user_data
get_user_data_new(o) ==
    IF o.cls = "AnimeListEntry"
    THEN AnimeUserData(o.id, o.username, o.score, o.consuming_status,
                       o.consuming_start, o.consuming_end,
                       o.episode_progress)
    ELSE MangaUserData(o.id, o.username, o.score, o.consuming_status,
                       o.consuming_start, o.consuming_end,
                       o.chapter_progress, o.volume_progress)

MediaListEntry_serialize(o) ==
    Let([media_data |-> get_media_data_new(o),
         user_data |-> get_user_data_new(o)],
        LAMBDA h :
            PyDict([k \in {"media_type", "media_data", "user_data"} |->
                       CASE k = "media_type" -> PyStr(Name(o.media_type))
                         [] k = "media_data" ->
                               MediaData_serialize(h.media_data)
                         [] OTHER -> MediaUserData_serialize(h.user_data)]))

\* MediaSerializable._deserialize on MediaListEntry or a subclass of it
MediaListEntry__deserialize(data) ==
    Let([kind |-> EnumLookup("MediaType", MediaTypes,
                             Item(data, "media_type")),
         media_data |-> Nested(data, "media_data",
                               MediaData_deserialize(data.dict["media_data"])),
         user_data |-> Nested(data, "user_data",
                              MediaUserData_deserialize(
                                  data.dict["user_data"]))],
        LAMBDA c :
            LET steps == <<c.kind, c.media_data, c.user_data>>
            IN  IF FirstRaise(steps) # NoneVal THEN FirstRaise(steps)
                ELSE IF MediaListEntry_get_class_for_media_type(c.kind)
                        = "AnimeListEntry"
                THEN AnimeListEntry(c.media_data, c.user_data)
                ELSE MangaListEntry(c.media_data, c.user_data))

MediaListEntry_deserialize(data) ==
    Serializable_deserialize(data, MediaListEntry__deserialize(data))

\* x.serialize() and X.deserialize(data), by the class of the object
Codec_serialize(o) ==
    CASE TypeOf(o) = "Score" -> Score_serialize(o)
      [] TypeOf(o) = "Date" -> Date_serialize(o)
      [] TypeOf(o) = "Title" -> Title_serialize(o)
      [] TypeOf(o) = "Id" -> Id_serialize(o)
      [] TypeOf(o) = "Relation" -> Relation_serialize(o)
      [] TypeOf(o) \in {"AnimeData", "MangaData"} -> MediaData_serialize(o)
      [] TypeOf(o) \in {"AnimeUserData", "MangaUserData"} ->
            MediaUserData_serialize(o)
      [] OTHER -> MediaListEntry_serialize(o)

Codec_deserialize(typ, data) ==
    CASE typ = "Score" -> Score_deserialize(data)
      [] typ = "Date" -> Date_deserialize(data)
      [] typ = "Title" -> Title_deserialize(data)
      [] typ = "Id" -> Id_deserialize(data)
      [] typ = "Relation" -> Relation_deserialize(data)
      [] typ \in {"MediaData", "AnimeData", "MangaData"} ->
            MediaData_deserialize(data)
      [] typ \in {"MediaUserData", "AnimeUserData", "MangaUserData"} ->
            MediaUserData_deserialize(data)
      [] OTHER -> MediaListEntry_deserialize(data)

\* Serializable.__eq__: other is of the type of self and serializes alike
Serializable__eq__(self, other) ==
    IF TypeOf(other) # TypeOf(self) THEN FALSE
    ELSE Codec_serialize(self) = Codec_serialize(other)

-----------------------------------------------------------------------------
(* The values the codec is run on *)

ScorePool ==
    {Score(PyInt(n), Member("ScoreType", t)) :
        n \in {0, 1, 3}, t \in {"THREE_POINT", "PERCENTAGE"}}

DatePool == {Date(PyInt(2018), PyInt(1), PyInt(1)), Date(PyInt(2016), PyInt(2), PyInt(29))}

\* None, or the first date of the pool
SomeDate == CHOOSE d \in DatePool : d.year = 2018
MaybeDate == {NoneVal, SomeDate}

TitlePool ==
    {Title("ROMAJI" :> PyStr("a"), Member("TitleType", "ROMAJI")),
     Title(("ENGLISH" :> PyStr("b")) @@ ("JAPANESE" :> PyStr("c")), Member("TitleType", "ROMAJI")),
     Title(("ROMAJI" :> PyStr("a")) @@ ("ENGLISH" :> PyStr("b")), Member("TitleType", "ENGLISH"))}

SomeTitle == CHOOSE t \in TitlePool : t.titles["ENGLISH"] = NoneVal

\* an entry validity that leaves the score out
EntryValidIgnoringScore(o) ==
    LET complete_none == o.consuming_end = NoneVal
        begin_none == o.consuming_start = NoneVal
        status == Name(o.consuming_status)
    IN  IF ~is_valid_entry(get_user_data_new(o)) THEN FALSE
        ELSE IF Name(o.releasing_status) \in {"FINISHED"} THEN TRUE
        ELSE IF Name(o.releasing_status) \in {"RELEASING", "CANCELLED"}
        THEN complete_none /\ status # "COMPLETED"
        ELSE begin_none /\ complete_none /\ status # "COMPLETED"
             /\ status \notin {"CURRENT", "PAUSED", "DROPPED"}

\* an entry validity that takes every media for a finished one
EntryValidAsFinished(o) == is_valid_entry(get_user_data_new(o))

\* MediaListEntry.is_valid_entry
MediaListEntry_is_valid_entry(o) ==
    LET score_zero == Score_get(o.score, Member("ScoreType", "PERCENTAGE")) = 0
        begin_none == o.consuming_start = NoneVal
        complete_none == o.consuming_end = NoneVal
        consuming_complete == Name(o.consuming_status) = "COMPLETED"
        started_watching ==
            Name(o.consuming_status) \in {"CURRENT", "PAUSED", "DROPPED"}
    IN  IF ~is_valid_entry(get_user_data_new(o)) THEN FALSE
        ELSE IF Name(o.releasing_status) \in {"FINISHED"} THEN TRUE
        ELSE IF Name(o.releasing_status) \in {"RELEASING", "CANCELLED"}
        THEN complete_none /\ score_zero /\ ~consuming_complete
        ELSE begin_none /\ complete_none /\ score_zero
             /\ ~consuming_complete /\ ~started_watching

IdPool == {IdA, IdB, RemoteIdNoMal}

RelationPool ==
    {Relation(IdA, Anime, IdB, Anime, Member("RelationType", "SEQUEL")),
     Relation(IdA, Anime, IdA, Manga, Member("RelationType", "ADAPTATION"))}

RelationLists == {PyList(<<>>)} \cup {PyList(<<r>>) : r \in RelationPool}

Finished == Member("ReleasingStatus", "FINISHED")

AnimeDataPool ==
    {AnimeData(i, t, r, Finished, d, NoneVal, u, n, PyInt(24)) :
        i \in {IdA, IdB}, t \in {SomeTitle}, r \in RelationLists,
        d \in MaybeDate, u \in {NoneVal, PyStr("url")},
        n \in {NoneVal, PyInt(12)}}

MangaDataPool ==
    {MangaData(i, SomeTitle, PyList(<<>>), Member("ReleasingStatus", "RELEASING"), d, NoneVal, NoneVal, n, NoneVal) :
        i \in {IdA, IdB}, d \in MaybeDate, n \in {NoneVal, PyInt(100)}}

ScoreChoices ==
    {Score(PyInt(n), Member("ScoreType", "PERCENTAGE")) : n \in {0, 55}}
    \cup {Score(PyInt(1), Member("ScoreType", "THREE_POINT"))}

AnimeUserDataPool ==
    {AnimeUserData(i, PyStr("u"), sc, Member("ConsumingStatus", st), b, e, PyInt(3)) :
        i \in {IdA}, sc \in ScoreChoices, st \in ConsumingStatuses,
        b \in MaybeDate, e \in MaybeDate}

MangaUserDataPool ==
    {MangaUserData(i, PyStr("u"), sc, Member("ConsumingStatus", st), NoneVal, NoneVal, PyInt(3), PyInt(1)) :
        i \in {IdA, IdB}, sc \in ScoreChoices, st \in {"PLANNING", "CURRENT"}}

\* the halves that make an entry
Pairs(medias, users) == {<<m, u>> \in medias \X users : m.id = u.id}

ListEntryPool ==
    {AnimeListEntry(p[1], p[2]) :
        p \in Pairs({m \in AnimeDataPool : m.cover_url = NoneVal /\ m.releasing_start = NoneVal},
                    {u \in AnimeUserDataPool : u.consuming_start = NoneVal})}
    \cup {MangaListEntry(p[1], p[2]) :
        p \in Pairs({m \in MangaDataPool : m.releasing_start = NoneVal}, MangaUserDataPool)}

ObjectPool ==
    ScorePool \cup DatePool \cup TitlePool \cup RelationPool
    \cup AnimeDataPool \cup MangaDataPool \cup AnimeUserDataPool
    \cup MangaUserDataPool \cup ListEntryPool

\* the generic class an object is deserialized through
GenericOf(o) ==
    CASE TypeOf(o) \in {"AnimeData", "MangaData"} -> "MediaData"
      [] TypeOf(o) \in {"AnimeUserData", "MangaUserData"} -> "MediaUserData"
      [] TypeOf(o) \in {"AnimeListEntry", "MangaListEntry"} ->
            "MediaListEntry"
      [] OTHER -> TypeOf(o)

\* the types a constructor admits for the value under each required key of
\* the serialized map of a class
FieldKinds(typ) ==
    LET date == [year |-> {"int"}, month |-> {"int"}, day |-> {"int"}]
        relation == [source |-> {"dict"}, source_type |-> {"str"},
                     dest |-> {"dict"}, dest_type |-> {"str"},
                     type |-> {"str"}]
        media == [media_type |-> {"str"}, id |-> {"dict"},
                  title |-> {"dict"}, relations |-> {"list"},
                  releasing_status |-> {"str"},
                  releasing_start |-> {"dict", "None"},
                  releasing_end |-> {"dict", "None"},
                  cover_url |-> {"str", "None"}]
        user == [media_type |-> {"str"}, media_id |-> {"dict"},
                 username |-> {"str"}, score |-> {"dict"},
                 consuming_status |-> {"str"},
                 consuming_start |-> {"dict", "None"},
                 consuming_end |-> {"dict", "None"}]
    IN  CASE typ = "Date" -> date
          [] typ = "Relation" -> relation
          [] typ = "AnimeData" ->
                media @@ [episode_count |-> {"int", "None"},
                          episode_duration |-> {"int", "None"}]
          [] typ = "MangaData" ->
                media @@ [chapter_count |-> {"int", "None"},
                          volume_count |-> {"int", "None"}]
          [] typ = "AnimeUserData" -> user @@ [episode_progress |-> {"int"}]
          [] typ = "MangaUserData" ->
                user @@ [chapter_progress |-> {"int"},
                         volume_progress |-> {"int"}]
          [] OTHER -> [media_type |-> {"str"}, media_data |-> {"dict"},
                       user_data |-> {"dict"}]

WrongValues == {PyInt(2000), PyStr("Hello"), NoneVal, PyBool(TRUE)}

\* data without the key
Without(data, key) == PyDict([k \in DOMAIN data.dict \ {key} |-> data.dict[k]])

\* data with the value under the key replaced
With(data, key, value) == PyDict([data.dict EXCEPT ![key] = value])

\* the object of each class whose map the faults are put in
Samples ==
    {CHOOSE o \in DatePool : TRUE, CHOOSE o \in RelationPool : TRUE,
     CHOOSE o \in AnimeDataPool : o.relations # PyList(<<>>) /\ o.releasing_start # NoneVal /\ o.cover_url # NoneVal /\ o.episode_count # NoneVal,
     CHOOSE o \in MangaDataPool : o.releasing_start # NoneVal /\ o.chapter_count # NoneVal,
     CHOOSE o \in AnimeUserDataPool : o.consuming_start # NoneVal /\ o.consuming_end # NoneVal,
     CHOOSE o \in MangaUserDataPool : TRUE,
     CHOOSE o \in ListEntryPool : o.cls = "AnimeListEntry"}

MapInput(typ, data, fault, key) == [kind |-> "map", typ |-> typ, data |-> data, fault |-> fault, key |-> key]

ValidMaps ==
    {MapInput(GenericOf(o), Codec_serialize(o), "none", "") : o \in ObjectPool}

MissingKeyMaps ==
    UNION {{MapInput(TypeOf(o), Without(Codec_serialize(o), k), "missing", k) :
               k \in DOMAIN FieldKinds(TypeOf(o))} : o \in Samples}

WrongTypeMaps ==
    UNION {UNION {{MapInput(TypeOf(o), With(Codec_serialize(o), k, w), "type", k) :
                      w \in {v \in WrongValues : TypeOf(v) \notin FieldKinds(TypeOf(o))[k]}} :
                  k \in DOMAIN FieldKinds(TypeOf(o))} : o \in Samples}

\* the concrete classes, and those that share a generic class with one
ConcreteTypes == {"AnimeData", "MangaData", "AnimeUserData", "MangaUserData", "AnimeListEntry", "MangaListEntry"}

Family(typ) == {c \in ConcreteTypes : GenericOf([cls |-> c]) = GenericOf([cls |-> typ])}

\* the serialized map of an object of either media kind, handed to the
\* deserialize of each concrete class of its family
SubtypeMaps ==
    UNION {{MapInput(c, Codec_serialize(o), "none", "") : c \in Family(TypeOf(o))} :
              o \in {s \in Samples : TypeOf(s) \in ConcreteTypes}
                     \cup {CHOOSE e \in ListEntryPool : e.cls = "MangaListEntry"}}

\* the halves an entry is constructed from, matching or not
HalvesInputs ==
    {[kind |-> "halves", media_type |-> t, media_data |-> m, user_data |-> u] :
        t \in {Anime, Manga},
        m \in {x \in AnimeDataPool \cup MangaDataPool : x.relations = PyList(<<>>) /\ x.releasing_start = NoneVal /\ x.cover_url = NoneVal},
        u \in {x \in AnimeUserDataPool \cup MangaUserDataPool : x.consuming_start = NoneVal /\ x.consuming_end = NoneVal /\ Name(x.consuming_status) = "PLANNING"}}

ObjectInputs == {[kind |-> "object", x |-> o] : o \in ObjectPool}

\* the entries whose validity is asked: every releasing status of the media
\* with every snapshot of the user
ValidityEntries ==
    {AnimeListEntry(AnimeData(IdA, SomeTitle, PyList(<<>>), Member("ReleasingStatus", rs), NoneVal, NoneVal, NoneVal, NoneVal, PyInt(24)), u) :
        rs \in ReleasingStatuses, u \in AnimeUserDataPool}
    \cup {MangaListEntry(MangaData(IdB, SomeTitle, PyList(<<>>), Member("ReleasingStatus", rs), NoneVal, NoneVal, NoneVal, NoneVal, NoneVal), u) :
        rs \in ReleasingStatuses, u \in {x \in MangaUserDataPool : x.id = IdB}}

EntryInputs == {[kind |-> "entry", x |-> o] : o \in ValidityEntries}

\* the titles a caller may construct: every choice of title types, each with
\* a string or with None for a value, and every default
TitleArgs ==
    {[kind |-> "title", titles |-> [k \in given |-> IF k \in strings THEN PyStr(k) ELSE NoneVal], default |-> Member("TitleType", d)] :
        given \in SUBSET TitleTypes, strings \in SUBSET TitleTypes, d \in TitleTypes}

CodecInputs ==
    ObjectInputs \cup ValidMaps \cup MissingKeyMaps \cup WrongTypeMaps
    \cup HalvesInputs \cup EntryInputs \cup TitleArgs \cup SubtypeMaps

-----------------------------------------------------------------------------
(* The codec at work: an input is drawn, one operation is applied to it *)

\* the caller holds the input; the store is as constructed and plays no part
InitCodec ==
    /\ held \in CodecInputs
    /\ now = 0
    /\ expiration = DefaultExpiration
    /\ write_after = DefaultWriteAfter
    /\ change_count = 0
    /\ disk = write(generate_empty_cache)
    /\ cache = load(write(generate_empty_cache))
    /\ ret = NoneVal
    /\ lastOp = [op |-> "__init__"]
    /\ nAdds = 0
    /\ wrote = FALSE
    /\ added = EmptyMap
    /\ memo = EmptyMap
    /\ remote = 1

Applied(name, result) ==
    /\ lastOp.op = "__init__"
    /\ lastOp' = [op |-> name]
    /\ ret' = result
    /\ UNCHANGED <<now, expiration, write_after, change_count, cache, disk,
                   held, nAdds, wrote, added, memo, remote>>

\* x == X.deserialize(x.serialize())
RoundTrip ==
    /\ held.kind = "object"
    /\ Applied("round_trip",
               Let(Codec_serialize(held.x),
                   LAMBDA data : Codec_deserialize(GenericOf(held.x), data)))

\* X.deserialize(data)
Deserialize ==
    /\ held.kind = "map"
    /\ Applied("deserialize", Codec_deserialize(held.typ, held.data))

\* AnimeListEntry(media_data, user_data), MangaListEntry(media_data, user_data)
NewListEntry ==
    /\ held.kind = "halves"
    /\ Applied("MediaListEntry",
               IF held.media_type = Anime
               THEN AnimeListEntry(held.media_data, held.user_data)
               ELSE MangaListEntry(held.media_data, held.user_data))

\* user_data.is_valid_entry()
IsValidEntry ==
    /\ held.kind = "object"
    /\ TypeOf(held.x) \in {"AnimeUserData", "MangaUserData"}
    /\ Applied("is_valid_entry", PyBool(is_valid_entry(held.x)))

\* entry.is_valid_entry()
IsValidListEntry ==
    /\ held.kind = "entry"
    /\ Applied("MediaListEntry.is_valid_entry",
               PyBool(MediaListEntry_is_valid_entry(held.x)))

\* Title(titles, default)
NewTitle ==
    /\ held.kind = "title"
    /\ Applied("Title", Title(held.titles, held.default))

NextCodec ==
    \/ NewTitle
    \/ RoundTrip
    \/ Deserialize
    \/ NewListEntry
    \/ IsValidEntry
    \/ IsValidListEntry

SpecCodec == InitCodec /\ [][NextCodec]_vars

-----------------------------------------------------------------------------
(* Claims about the codec *)

Subtype(generic, discriminator) ==
    CASE generic = "MediaData" ->
            IF discriminator = PyStr("ANIME") THEN "AnimeData"
            ELSE "MangaData"
      [] generic = "MediaUserData" ->
            IF discriminator = PyStr("ANIME") THEN "AnimeUserData"
            ELSE "MangaUserData"
      [] OTHER ->
            IF discriminator = PyStr("ANIME") THEN "AnimeListEntry"
            ELSE "MangaListEntry"

GenericTypes == {"MediaData", "MediaUserData", "MediaListEntry"}

C18_ErrorKindMatchesCause ==
    lastOp.op = "deserialize" =>
        /\ held.fault = "missing" => ret = Raised("ValueError")
        /\ held.fault = "type" => ret = Raised("TypeError")

\* the halves are of the kind of the entry and have the same id
Matching(media_type, media_data, user_data) ==
    /\ media_data.id = user_data.id
    /\ media_data.media_type = media_type
    /\ user_data.media_type = media_type

ValidSnapshot(o) ==
    LET status == Name(o.consuming_status)
        scored == o.score.score # 0
        started == o.consuming_start # NoneVal
        ended == o.consuming_end # NoneVal
    IN  \/ status \in {"COMPLETED", "REPEATING"} /\ scored /\ started /\ ended
        \/ status \in {"CURRENT", "PAUSED", "DROPPED"} /\ started /\ ~ended
        \/ status = "PLANNING" /\ ~scored /\ ~started /\ ~ended

\* C20: is_valid_entry is true exactly for the snapshots of the validity
\* table.
C20_ValidityTable ==
    lastOp.op = "is_valid_entry" => ret = PyBool(ValidSnapshot(held.x))

C20_Witness ==
    /\ lastOp.op = "is_valid_entry"
    /\ Name(held.x.consuming_status) = "COMPLETED"
    /\ held.x.score.score = 1
    /\ ret = PyBool(TRUE)

-----------------------------------------------------------------------------
(* A score through its life: constructed from arguments, then converted in
   place any number of times *)

\* the scores a caller may ask for: every scale, from below zero to above its
\* maximum
ScoreArgs ==
    UNION {{[kind |-> "score", score |-> PyInt(n), mode |-> Member("ScoreType", t)] :
               n \in -1 .. ScoreTypeValue(Member("ScoreType", t)) + 1} :
           t \in ScoreTypes}

InitScore ==
    /\ held \in ScoreArgs
    /\ now = 0
    /\ expiration = DefaultExpiration
    /\ write_after = DefaultWriteAfter
    /\ change_count = 0
    /\ disk = write(generate_empty_cache)
    /\ cache = load(write(generate_empty_cache))
    /\ ret = NoneVal
    /\ lastOp = [op |-> "__init__"]
    /\ nAdds = 0
    /\ wrote = FALSE
    /\ added = EmptyMap
    /\ memo = EmptyMap
    /\ remote = 1

\* score = Score(score, score_type)
ScoreNew == Applied("Score", Score(held.score, held.mode))

\* Score.convert
Score_convert_in_place(o, score_type) ==
    [o EXCEPT !.score = Score_convert(o.score, o.mode, score_type),
              !.mode = score_type]

\* score.convert(score_type), on the score constructed before
ScoreConvert(score_type) ==
    /\ lastOp.op \in {"Score", "convert"}
    /\ ~IsRaise(ret)
    /\ ret' = Score_convert_in_place(ret, score_type)
    /\ lastOp' = [op |-> "convert"]
    /\ UNCHANGED <<now, expiration, write_after, change_count, cache, disk,
                   held, nAdds, wrote, added, memo, remote>>

NextScore ==
    \/ ScoreNew
    \/ \E t \in ScoreTypes : ScoreConvert(Member("ScoreType", t))

SpecScore == InitScore /\ [][NextScore]_vars

-----------------------------------------------------------------------------
\* the user's snapshot of an entry, against the validity table
EntrySnapshot(o) ==
    [status |-> Name(o.consuming_status),
     scored |-> o.score.score # 0,
     started |-> o.consuming_start # NoneVal,
     ended |-> o.consuming_end # NoneVal,
     user_valid |-> ValidSnapshot(o)]

C23_ScoreWithinScale ==
    /\ (lastOp.op \in {"Score", "convert"} /\ ~IsRaise(ret))
       => /\ ret.cls = "Score"
          /\ 0 <= ret.score
          /\ ret.score <= ScoreTypeValue(ret.mode)
    /\ lastOp.op = "Score"
       => (ret = Raised("ValueError")
           <=> \/ held.score.int < 0
               \/ held.score.int > ScoreTypeValue(held.mode))
    /\ lastOp.op = "Score" /\ ~IsRaise(ret)
       => ret.score = held.score.int /\ ret.mode = held.mode

C23_Witness ==
    /\ lastOp.op = "convert"
    /\ held.score = PyInt(75)
    /\ Name(held.mode) = "PERCENTAGE"
    /\ Name(ret.mode) = "TEN_POINT"
    /\ ret.score = 8

-----------------------------------------------------------------------------
(* The life of a record: adds, gets and the passing of time, with the
   history of the adds kept per key.  No load() takes place. *)

\* history: the key was last added at time t with value v, first at time first
Stamp(h, k, t, data) ==
    [x \in DOMAIN h \cup {k} |->
        IF x = k
        THEN [t |-> t,
              first |-> IF k \in DOMAIN h THEN h[k].first ELSE t,
              v |-> Value(data)]
        ELSE h[x]]

\* the store an add leaves
Stamped(S) ==
    /\ cache' = S.cache
    /\ change_count' = S.change_count
    /\ disk' = S.disk
    /\ ret' = S.ret
    /\ UNCHANGED <<expiration, write_after, held, nAdds, wrote, added,
                   remote>>

\* cache.add_media_data(site_type, data, True)
LifeAddMediaData(site_type, data) ==
    LET k == Key("MEDIA_DATA", site_type, TagOf(site_type, AsId(data.id), data))
    IN  /\ Stamped(add_media_data(Current, site_type, data, TRUE, now,
                                  write_after))
        /\ memo' = IF ret' = NoneVal THEN Stamp(memo, k, now, data) ELSE memo
        /\ lastOp' = [op |-> "add_media_data", site_type |-> site_type,
                      ignore |-> TRUE, keys |-> {k}]
        /\ UNCHANGED now

\* cache.add_media_user_data(site_type, _id, data, True)
LifeAddMediaUserData(site_type, _id, data) ==
    LET k == Key("USER_DATA", site_type, TagOf(site_type, _id, data))
    IN  /\ Stamped(add_media_user_data(Current, site_type, _id, data, TRUE,
                                       now, write_after))
        /\ memo' = IF ret' = NoneVal THEN Stamp(memo, k, now, data) ELSE memo
        /\ lastOp' = [op |-> "add_media_user_data", site_type |-> site_type,
                      ignore |-> TRUE, keys |-> {k}]
        /\ UNCHANGED now

\* cache.add_media_list_entry(site_type, data, True); t2: time.time() when the
\* second half is stamped
LifeAddMediaListEntry(site_type, data, t2, limit) ==
    LET m == get_media_data_of(data)
        u == get_user_data_of(data)
        km == Key("MEDIA_DATA", site_type, TagOf(site_type, AsId(data.id), m))
        ku == Key("USER_DATA", site_type, TagOf(site_type, AsId(data.id), u))
    IN  /\ t2 \in {now, now + 1} /\ t2 <= limit
        /\ now' = t2
        /\ Stamped(add_media_list_entry(Current, site_type, data, TRUE, now,
                                        t2, write_after))
        /\ memo' = IF ret' = NoneVal
                   THEN Stamp(Stamp(memo, km, now, m), ku, t2, u)
                   ELSE memo
        /\ lastOp' = [op |-> "add_media_list_entry", site_type |-> site_type,
                      ignore |-> TRUE, keys |-> {km, ku}]

InitLife == InitWith(Expirations, {DefaultWriteAfter})

NextLife ==
    \/ Tick(MaxTime)
    \/ \E site \in CoreSites, data \in MediaPool({1}) :
          LifeAddMediaData(site, data)
    \/ \E site \in CoreSites, data \in UserPool({<<"ANIME", IdA>>}, {1}) :
          LifeAddMediaUserData(site, AsId(data.id), data)
    \/ \E site \in CoreSites, data \in EntryPool({1}), t2 \in 0 .. MaxTime :
          LifeAddMediaListEntry(site, data, t2, MaxTime)
    \/ \E site \in CoreSites :
          GetMediaData(site, "ANIME", AsInt(1), FALSE)
    \/ \E site \in CoreSites, u \in Usernames :
          GetMediaUserData(site, "ANIME", AsId(IdA), u, FALSE)
    \/ \E site \in CoreSites, u \in Usernames, t2 \in 0 .. MaxTime :
          GetMediaListEntry(site, "ANIME", AsInt(1), u, FALSE, t2, MaxTime)

SpecLife == InitLife /\ [][NextLife]_vars

-----------------------------------------------------------------------------
(* The sites of a store: the same records added and asked for under two
   sites, in a store whose records do not expire *)

SiteSites == {"MYANIMELIST", "ANILIST"}

InitSites == InitWith({-1}, {DefaultWriteAfter})

NextSites ==
    \/ \E site \in SiteSites, data \in MediaPool({1, 2}) :
          LifeAddMediaData(site, data)
    \/ \E site \in SiteSites, data \in UserPool({<<"ANIME", IdA>>}, {1, 2}) :
          LifeAddMediaUserData(site, AsId(data.id), data)
    \/ \E site \in SiteSites, data \in EntryPool({1}) :
          LifeAddMediaListEntry(site, data, now, MaxTime)
    \/ \E site \in SiteSites :
          GetMediaData(site, "ANIME", AsInt(1), FALSE)
    \/ \E site \in SiteSites, u \in Usernames :
          GetMediaUserData(site, "ANIME", AsId(IdA), u, FALSE)
    \/ \E site \in SiteSites, u \in Usernames :
          GetMediaListEntry(site, "ANIME", AsInt(1), u, FALSE, now, MaxTime)

SpecSites == InitSites /\ [][NextSites]_vars

\* the key a single get reads
GetKey(o) == Key(GetType(o), o.site_type, GetTag(o))

\* the slot of a key
SlotOf(c, k) == c[k[1]][k[2]][k[3]]

HasSlot(c, k) == k[3] \in DOMAIN c[k[1]][k[2]]

\* C24: an add stamps its slot with the time of the add and the record added,
\* whatever the slot held before, and a get of a key last added at time t is
\* answered with that record at every time t' with t' - t <= ttl.
C24_AddRestartsLifetime ==
    [][/\ (IsAdd(lastOp') /\ ret' = NoneVal)
          => \A k \in lastOp'.keys :
                /\ HasSlot(cache', k)
                /\ SlotOf(cache', k).timestamp = memo'[k].t
                /\ memo'[k].t \in {now, now'}
                /\ Value(SlotOf(cache', k).data) = memo'[k].v
       /\ (/\ IsSingleGet(lastOp')
           /\ GetKey(lastOp') \in DOMAIN memo
           /\ expiration >= 0
           /\ now - memo[GetKey(lastOp')].t <= expiration)
          => Value(ret') = memo[GetKey(lastOp')].v]_vars

\* a record first added at 0 and added again at 1 is returned at 2, when the
\* first add alone would have expired
C24_Witness ==
    /\ IsSingleGet(lastOp)
    /\ expiration = 1
    /\ GetKey(lastOp) \in DOMAIN memo
    /\ memo[GetKey(lastOp)].first = 0
    /\ memo[GetKey(lastOp)].t = 1
    /\ now = 2
    /\ IsObject(ret)

C26_SitesAreSeparate ==
    [][(IsSingleGet(lastOp') /\ IsObject(ret'))
       => /\ GetKey(lastOp') \in DOMAIN memo
          /\ Value(ret') = memo[GetKey(lastOp')].v]_vars

\* a get under ANILIST has missed while the record added under MYANIMELIST
\* for the same tag is alive
C26_Witness ==
    /\ IsSingleGet(lastOp)
    /\ lastOp.site_type = "ANILIST"
    /\ ret = NoneVal
    /\ expiration < 0
    /\ GetKey(lastOp) \notin DOMAIN memo
    /\ Key(GetType(lastOp), "MYANIMELIST", GetTag(lastOp)) \in DOMAIN memo
    /\ HasSlot(cache, Key(GetType(lastOp), "MYANIMELIST", GetTag(lastOp)))

-----------------------------------------------------------------------------
(* Persistence *)

\* every key a caller can ask a store for
AskedKeys ==
    {[cache_type |-> ct, site_type |-> s, media_type |-> mt, _id |-> i,
      username |-> IF ct = "USER_DATA" THEN <<u>> ELSE NoUser] :
        ct \in CacheTypes, s \in IdTypes, mt \in MediaTypes, i \in IdArgs,
        u \in Usernames}

\* what a store c with lifetime exp returns for key k at the present time
Asked(c, k, exp) ==
    Value(get_cached(c, k.cache_type, k.site_type, k.media_type, k._id,
                     k.username, now, exp).ret)

C29_SuppressedAddNeverWrites ==
    [][(IsAdd(lastOp') /\ lastOp'.ignore) => disk' = disk]_vars

-----------------------------------------------------------------------------
(* Opening a store: the location may hold no directory, a directory without
   a document, or a document *)

NoDir == [cls |-> "nodir"]
NoFile == [cls |-> "nofile"]

IsDocument(loc) == loc \notin {NoDir, NoFile}

\* a constructor that starts every store from an empty document
Cache__init__empty(loc) ==
    [cache |-> load(write(generate_empty_cache)),
     change_count |-> 0,
     disk |-> write(generate_empty_cache)]

\* Cache.__init__: the directory is made if it is missing, the empty store is
\* written if the document is missing, and the document is loaded
Cache__init__(loc) ==
    LET dir == IF loc = NoDir THEN NoFile ELSE loc
        doc == IF dir = NoFile THEN write(generate_empty_cache) ELSE dir
    IN  [cache |-> load(doc), change_count |-> 0, disk |-> doc]

\* cache = Cache(cache_location, expiration, write_after): a new store on the
\* location, in the place of the one before
Open ==
    /\ cache' = Cache__init__(disk).cache
    /\ change_count' = Cache__init__(disk).change_count
    /\ disk' = Cache__init__(disk).disk
    /\ expiration' \in {-1, 0}
    /\ write_after' \in {1, 2}
    /\ ret' = NoneVal
    /\ nAdds' = 0
    /\ wrote' = FALSE
    /\ added' = EmptyMap
    /\ lastOp' = [op |-> "Cache", found |-> disk]
    /\ UNCHANGED <<now, held, memo, remote>>

\* shutil.rmtree(cache_location), os.remove(cache_file): the store that was
\* open on the location is given up
Remove(left) ==
    /\ IsDocument(disk)
    /\ disk' = left
    /\ ret' = NoneVal
    /\ lastOp' = [op |-> "remove"]
    /\ UNCHANGED <<now, expiration, write_after, change_count, cache, held,
                   nAdds, wrote, added, memo, remote>>

InitOpen == InitWith({-1}, {1, 2})

NextOpen ==
    \/ Open
    \/ \E left \in {NoDir, NoFile} : Remove(left)
    \/ /\ IsDocument(disk)
       /\ \E site \in CoreSites, data \in MediaPool({1, 2}) :
             AddMediaData(site, data, FALSE, FALSE)
    \/ /\ IsDocument(disk)
       /\ \E site \in CoreSites, data \in UserPool({<<"ANIME", IdA>>}, {1}) :
             AddMediaUserData(site, AsId(data.id), data, FALSE, FALSE)
    \/ /\ IsDocument(disk)
       /\ Write

SpecOpen == InitOpen /\ [][NextOpen]_vars

\* C28: a store constructed on a location without a document writes the
\* empty document there (making the directory first) and is empty; a store
\* constructed on a location that holds a document loads it and leaves the
\* document as it was.
C28_OpenCreatesOrLoads ==
    [][lastOp'.op = "Cache"
       => IF IsDocument(disk)
          THEN /\ disk' = disk
               /\ cache' = load(disk)
          ELSE /\ disk' = write(generate_empty_cache)
               /\ Keys(cache') = {}
               /\ \A ct \in CacheTypes, site \in IdTypes :
                     disk'[ct][site] = EmptyMap]_vars

\* a store has been opened on a document that holds a record
C28_Witness ==
    /\ lastOp.op = "Cache"
    /\ IsDocument(lastOp.found)
    /\ Keys(cache) # {}
    /\ disk = lastOp.found

-----------------------------------------------------------------------------
(* Titles *)

\* the title types given with a string
Populated(titles) == {k \in DOMAIN titles : TypeOf(titles[k]) = "str"}

\* the first of ROMAJI, ENGLISH, JAPANESE among the types
FirstInOrder(types) ==
    IF "ROMAJI" \in types THEN "ROMAJI"
    ELSE IF "ENGLISH" \in types THEN "ENGLISH"
    ELSE "JAPANESE"

\* C30: the default title type of a constructed title is one that has a
\* title: the configured default if it has one, else the first of ROMAJI,
\* ENGLISH, JAPANESE that has one.
C30_DefaultIsPopulated ==
    (lastOp.op = "Title" /\ Populated(held.titles) # {})
    => /\ ~IsRaise(ret)
       /\ TypeOf(ret.titles[Name(ret.default)]) = "str"
       /\ Name(held.default) \in Populated(held.titles)
          => ret.default = held.default
       /\ Name(held.default) \notin Populated(held.titles)
          => Name(ret.default) = FirstInOrder(Populated(held.titles))

\* ENGLISH is taken when ENGLISH and JAPANESE have a title and the default
\* ROMAJI has none
C30_Witness ==
    /\ lastOp.op = "Title"
    /\ Populated(held.titles) = {"ENGLISH", "JAPANESE"}
    /\ Name(held.default) = "ROMAJI"
    /\ Name(ret.default) = "ENGLISH"

-----------------------------------------------------------------------------
(* The id a query is made with *)

QueryWith(query_id, id_type) ==
    [cls |-> "tuple", query_id |-> query_id, id_type |-> id_type]

\* C31: the id of a query is resolved in a fixed order: the ANILIST id if the
\* Id has one, whatever else it has; else, where the query takes the
\* MYANIMELIST id, that id with the type MYANIMELIST and without any
\* translation; only else the MYANIMELIST id translated through the memo.
C31_ResolutionOrder ==
    [][lastOp'.op = "resolve_query_id"
       => LET _id == lastOp'._id
              key == MalKey(lastOp'.media_type, _id["MYANIMELIST"])
          IN  IF _id["ANILIST"] # NoId
              THEN /\ ret' = QueryWith(_id["ANILIST"], "ANILIST")
                   /\ lastOp'.calls = 0
                   /\ memo' = memo
              ELSE IF lastOp'.allow_mal
              THEN /\ _id["MYANIMELIST"] # NoId
                      => ret' = QueryWith(_id["MYANIMELIST"], "MYANIMELIST")
                   /\ lastOp'.calls = 0
                   /\ memo' = memo
              ELSE /\ key \in DOMAIN memo
                      => /\ ret' = QueryWith(memo[key], "ANILIST")
                         /\ lastOp'.calls = 0
                   /\ ret' # NoneVal
                      => /\ ret'.id_type = "ANILIST"
                         /\ key \in DOMAIN memo'
                         /\ ret'.query_id = memo'[key]]_vars

\* the MYANIMELIST id was used as it is although the memo holds its
\* translation
C31_Witness ==
    /\ lastOp.op = "resolve_query_id"
    /\ lastOp._id = Id(2, NoId, NoId)
    /\ lastOp.allow_mal
    /\ MalKey("ANIME", 2) \in DOMAIN memo
    /\ ret = QueryWith(2, "MYANIMELIST")

-----------------------------------------------------------------------------
(* The class a concrete deserialize answers with *)

\* C38: deserialize called on a concrete class (AnimeData, MangaData,
\* AnimeUserData, MangaUserData, AnimeListEntry, MangaListEntry) raises or
\* returns an object of that very class; a map naming the other media kind
\* does not come back as an object of the other kind.
C38_ConcreteGivesOwnClass ==
    (lastOp.op = "deserialize" /\ held.typ \in ConcreteTypes)
    => (IsRaise(ret) \/ TypeOf(ret) = held.typ)

-----------------------------------------------------------------------------
(* What a get leaves alone *)

\* the keys of the two halves a get of a list entry looks up
HalfKeys(o) ==
    {Key("MEDIA_DATA", o.site_type,
         generate_id_tag(o.media_type, resolve_id(o.site_type, o._id), NoUser)),
     Key("USER_DATA", o.site_type,
         generate_id_tag(o.media_type, resolve_id(o.site_type, o._id),
                         <<o.username>>))}

\* every slot of c but those of the keys gone is in d as it is in c, and d
\* has no other
SameBut(c, d, gone) ==
    /\ Keys(d) = Keys(c) \ gone
    /\ \A k \in Keys(d) : SlotOf(d, k) = SlotOf(c, k)

\* C33: a get never changes the dirty counter or the document.  A get that
\* hits, or that misses on an absent slot, leaves the store as it is; a get
\* that finds an expired slot removes that slot and no other, and every slot
\* that stays is unchanged.  A get of a list entry does so for each of the
\* two halves it looks up.
C33_GetOnlyEvicts ==
    [][IsGet(lastOp')
       => /\ change_count' = change_count
          /\ disk' = disk
          /\ IsSingleGet(lastOp')
             => LET k == GetKey(lastOp')
                IN  IF HasSlot(cache, k) /\ ret' = NoneVal
                    THEN /\ expiration >= 0
                         /\ now - SlotOf(cache, k).timestamp > expiration
                         /\ SameBut(cache, cache', {k})
                    ELSE cache' = cache
          /\ ~IsSingleGet(lastOp')
             => \E gone \in SUBSET (HalfKeys(lastOp') \cap Keys(cache)) :
                   /\ SameBut(cache, cache', gone)
                   /\ gone # {} => expiration >= 0
                   /\ \A k \in gone :
                         now' - SlotOf(cache, k).timestamp > expiration
                   /\ IsObject(ret') => gone = {}]_vars

\* the media record was found expired and evicted by a get; the user record
\* of the same media is still in the store
C33_Witness ==
    /\ lastOp.op = "get_media_data"
    /\ ret = NoneVal
    /\ GetKey(lastOp) \in DOMAIN memo
    /\ now - memo[GetKey(lastOp)].t > expiration
    /\ expiration >= 0
    /\ Keys(cache) # {}
    /\ GetKey(lastOp) \notin Keys(cache)

-----------------------------------------------------------------------------
(* A document shared with another store, and documents that cannot be read.
   The store adds, gets, writes and loads; a second store constructed on the
   same location adds a record and writes; the document may be damaged from
   outside. *)

\* a document that is no JSON
Malformed == [cls |-> "malformed"]

\* the "data" of a leaf that no class deserializes
BadLeaf == [cls |-> "bad"]

BadKeys(doc) == {k \in Keys(doc) : SlotOf(doc, k).data = BadLeaf}

\* a document every store can be constructed on
Sound(doc) == doc # Malformed /\ BadKeys(doc) = {}

\* the leaves of the keys given, in a document of the same shape
Leaves(doc, keys) ==
    [ct \in CacheTypes |-> [site \in IdTypes |->
        [tag \in {x \in DOMAIN doc[ct][site] : Key(ct, site, x) \in keys} |->
            doc[ct][site][tag]]]]

\* the leaves the loops of load may have passed when they come to the first
\* leaf that fails: whole cache types, whole sites of the cache type of that
\* leaf, and tags of its site, in the order the document lists them
Reached(doc) ==
    {before \in SUBSET (Keys(doc) \ BadKeys(doc)) :
        \E b \in BadKeys(doc) :
        \E cts \in SUBSET (CacheTypes \ {b[1]}), sites \in SUBSET (IdTypes \ {b[2]}), tags \in SUBSET (DOMAIN doc[b[1]][b[2]] \ {b[3]}) :
           before = {k \in Keys(doc) : \/ k[1] \in cts
                                        \/ (k[1] = b[1] /\ k[2] \in sites)
                                        \/ (k[1] = b[1] /\ k[2] = b[2] /\ k[3] \in tags)}}

\* a load that keeps the slots of the store the document has no leaf for
Cache_load_merging(c, doc, reached) ==
    IF ~Sound(doc) THEN Got(c, Raised("ValueError"))
    ELSE Got([ct \in CacheTypes |-> [site \in IdTypes |->
                 [tag \in DOMAIN c[ct][site] \cup DOMAIN doc[ct][site] |->
                     IF tag \in DOMAIN doc[ct][site]
                     THEN load(doc)[ct][site][tag]
                     ELSE c[ct][site][tag]]]],
             NoneVal)

\* Cache.load: json.load fails before the store is touched; else the store
\* is emptied and filled leaf by leaf, and a leaf that fails ends the call
\* with the leaves reached so far in the store
Cache_load(c, doc, reached) ==
    IF doc = Malformed THEN Got(c, Raised("JSONDecodeError"))
    ELSE IF BadKeys(doc) = {} THEN Got(load(doc), NoneVal)
    ELSE Got(load(Leaves(doc, reached)), Raised("ValueError"))

\* self.cache.load()
LoadDocument(reached) ==
    LET L == Cache_load(cache, disk, reached)
    IN  /\ cache' = L.cache
        /\ ret' = L.ret
        /\ lastOp' = [op |-> "load", found |-> disk]
        /\ UNCHANGED <<now, expiration, write_after, change_count, disk,
                       held, nAdds, wrote, added, memo, remote>>

\* cache = Cache(location); cache.add(site_type, data); cache.write()
OtherFlush(site_type, data) ==
    /\ Sound(disk)
    /\ disk' = write(add(Store(load(disk), 0, disk, NoneVal), site_type, data,
                         FALSE, now, DefaultWriteAfter).cache)
    /\ ret' = NoneVal
    /\ lastOp' = [op |-> "other_write"]
    /\ UNCHANGED <<now, expiration, write_after, change_count, cache, held,
                   nAdds, wrote, added, memo, remote>>

\* what a sound document may be damaged to: the file is cut short, or one
\* record of it is overwritten
Damaged(doc) ==
    IF ~Sound(doc) THEN {}
    ELSE {Malformed}
         \cup {[doc EXCEPT ![k[1]][k[2]][k[3]].data = BadLeaf] : k \in Keys(doc)}

Corrupt(doc) ==
    /\ doc \in Damaged(disk)
    /\ disk' = doc
    /\ ret' = NoneVal
    /\ lastOp' = [op |-> "corrupt"]
    /\ UNCHANGED <<now, expiration, write_after, change_count, cache, held,
                   nAdds, wrote, added, memo, remote>>

InitShared == InitWith({-1}, {DefaultWriteAfter})

NextShared ==
    \/ \E site \in CoreSites, data \in MediaPool({1}) :
          AddMediaData(site, data, FALSE, FALSE)
    \/ \E site \in CoreSites, data \in UserPool({<<"ANIME", IdA>>}, {1}) :
          AddMediaUserData(site, AsId(data.id), data, FALSE, FALSE)
    \/ \E site \in CoreSites :
          GetMediaData(site, "ANIME", AsInt(1), FALSE)
    \/ \E site \in CoreSites, u \in Usernames :
          GetMediaUserData(site, "ANIME", AsId(IdA), u, FALSE)
    \/ Write
    \/ \E reached \in IF Sound(disk) \/ disk = Malformed THEN {{}} ELSE Reached(disk) :
          LoadDocument(reached)
    \/ \E site \in CoreSites, data \in MediaPool({2}) \cup UserPool({<<"ANIME", IdA>>}, {2}) :
          OtherFlush(site, data)
    \/ \E doc \in Damaged(disk) :
          Corrupt(doc)

SpecShared == InitShared /\ [][NextShared]_vars

\* what the document holds for key k
DocValue(doc, k) ==
    LET tag == generate_id_tag(k.media_type, resolve_id(k.site_type, k._id),
                               k.username)
    IN  IF tag \in DOMAIN doc[k.cache_type][k.site_type]
        THEN Value(deserialize(k.cache_type,
                               doc[k.cache_type][k.site_type][tag].data,
                               "ret"))
        ELSE NoneVal

\* C32: after a load() that succeeds the store is the document: written
\* again it gives the document, and every key is answered with what the
\* document holds for it, so a record added here and never written is gone
\* and a record written by another store on the same file is returned.  The
\* write of the other store changes nothing in this store before the load.
C32_LoadEqualsDocument ==
    [][/\ (lastOp'.op = "load" /\ ret' = NoneVal)
          => /\ disk' = disk
             /\ write(cache') = disk
             /\ \A k \in AskedKeys :
                   Asked(cache', k, expiration) = DocValue(disk, k)
       /\ lastOp'.op = "other_write"
          => /\ cache' = cache
             /\ \A k \in AskedKeys :
                   Asked(cache', k, expiration) = Asked(cache, k, expiration)]_vars

\* the load has brought the media record another store wrote (content 2), and
\* the user record added here and never written is gone
C32_Witness ==
    /\ lastOp.op = "load"
    /\ ret = NoneVal
    /\ \E k \in AskedKeys :
          /\ k.cache_type = "MEDIA_DATA"
          /\ IsObject(Asked(cache, k, expiration))
          /\ Asked(cache, k, expiration).content = 2
    /\ \E k \in DOMAIN added : k[1] = "USER_DATA" /\ ~HasSlot(cache, k)
    /\ ~wrote

\* C34: a load() that fails, on a document that is no JSON or on a leaf that
\* cannot be deserialized, raises to the caller and leaves the store as it
\* was before the call.
C34_FailedLoadKeepsStore ==
    [][(lastOp'.op = "load" /\ ret' # NoneVal)
       => (IsRaise(ret') /\ cache' = cache)]_vars

-----------------------------------------------------------------------------
(* The age of a record across write() and load(): adds with the history of
   their times kept per key, gets, the passing of time, and the document
   written and loaded again *)

InitAge == InitWith(Expirations, {DefaultWriteAfter})

NextAge ==
    \/ Tick(MaxTime)
    \/ \E site \in CoreSites, data \in MediaPool({1}) :
          LifeAddMediaData(site, data)
    \/ \E site \in CoreSites, data \in UserPool({<<"ANIME", IdA>>}, {1}) :
          LifeAddMediaUserData(site, AsId(data.id), data)
    \/ \E site \in CoreSites :
          GetMediaData(site, "ANIME", AsInt(1), FALSE)
    \/ \E site \in CoreSites, u \in Usernames :
          GetMediaUserData(site, "ANIME", AsId(IdA), u, FALSE)
    \/ Write
    \/ Load

SpecAge == InitAge /\ [][NextAge]_vars

\* what a store c with lifetime exp returns for key k at time t
AskedAt(c, k, t, exp) ==
    Value(get_cached(c, k.cache_type, k.site_type, k.media_type, k._id,
                     k.username, t, exp).ret)

\* C37: write() puts each record into the document with the timestamp it has
\* in the store, and load() takes it from the document with that timestamp:
\* in the store and in the document a record is stamped with the time of
\* one of its adds, never later than its last add.  A key the writing store
\* misses at some time, now or later, is missed at that time by a store
\* loaded from the document.
C37_TimestampSurvivesReload ==
    [][/\ lastOp'.op = "write"
          => /\ Keys(disk') = Keys(cache)
             /\ \A k \in Keys(cache) :
                   SlotOf(disk', k).timestamp = SlotOf(cache, k).timestamp
             /\ \A k \in AskedKeys, t \in now .. MaxTime :
                   AskedAt(cache, k, t, expiration) = NoneVal
                   => AskedAt(load(disk'), k, t, expiration) = NoneVal
       /\ lastOp'.op = "load"
          => /\ Keys(cache') = Keys(disk)
             /\ \A k \in Keys(disk) :
                   SlotOf(cache', k).timestamp = SlotOf(disk, k).timestamp
       /\ \A c \in {cache', disk'} :
             \A k \in Keys(c) :
                /\ k \in DOMAIN memo'
                /\ SlotOf(c, k).timestamp >= memo'[k].first
                /\ SlotOf(c, k).timestamp <= memo'[k].t]_vars

\* a record added at an earlier time has been written and loaded again: it
\* is in the store with the time of its add and is past its lifetime
C37_Witness ==
    /\ lastOp.op = "load"
    /\ expiration >= 0
    /\ \E k \in Keys(cache) :
          /\ SlotOf(cache, k).timestamp = memo[k].t
          /\ now - SlotOf(cache, k).timestamp > expiration

-----------------------------------------------------------------------------
(* The slot of an Id: records of media that have an id of the site and of
   media that have none, added and asked for by their Ids under two sites *)

IdC == Id(2, NoId, NoId)

TagIds == {IdB, IdC}

InitTags == InitWith({-1}, {DefaultWriteAfter})

NextTags ==
    \/ \E site \in SiteSites, _id \in TagIds :
          LifeAddMediaData(site, MediaData("ANIME", _id, 1, "caller"))
    \/ \E site \in SiteSites, data \in UserPool({<<"ANIME", IdB>>, <<"ANIME", IdC>>}, {1}) :
          LifeAddMediaUserData(site, AsId(data.id), data)
    \/ \E site \in SiteSites, _id \in TagIds :
          GetMediaData(site, "ANIME", AsId(_id), FALSE)
    \/ \E site \in SiteSites, _id \in TagIds, u \in Usernames :
          GetMediaUserData(site, "ANIME", AsId(_id), u, FALSE)

SpecTags == InitTags /\ [][NextTags]_vars

\* C36: a get for an Id under a site returns no record of another Id: the
\* record returned has the Id asked for, or at least the id the Id asked for
\* has of that site.  Two Ids that both have no id of the site do not share
\* a slot.
C36_SlotPerIdentifier ==
    [][(IsSingleGet(lastOp') /\ IsObject(ret'))
       => \/ ret'.id = lastOp'._id.ids
          \/ /\ ret'.id[lastOp'.site_type] # NoId
             /\ ret'.id[lastOp'.site_type] = lastOp'._id.ids[lastOp'.site_type]]_vars

-----------------------------------------------------------------------------
(* The adapters of the other sites on the store of the AniList adapter:
   MyanimelistApi and KitsuApi inherit the public getters and implement no
   fetch *)

OtherAdapters == {"MYANIMELIST", "KITSU"}

\* MyanimelistApi._get_data, KitsuApi._get_data and the like
not_implemented == Fetched(Raised("NotImplementedError"), 0, memo)

\* the store and the result a getter of the adapter of id_type leaves
AdapterAnswered(id_type, R, name, media_type, _id, username, fresh) ==
    /\ fresh \in FreshArgs
    /\ cache' = R.cache
    /\ ret' = R.ret
    /\ lastOp' = [op |-> name, adapter |-> id_type, media_type |-> media_type,
                  _id |-> _id, username |-> username, fresh |-> fresh]
    /\ UNCHANGED <<now, expiration, write_after, change_count, disk, held,
                   nAdds, wrote, added, memo, remote>>

\* ApiInterface.get_data on MyanimelistApi or KitsuApi
AdapterGetData(id_type, media_type, _id, fresh) ==
    AdapterAnswered(id_type,
                    Through(get_media_data(cache, "ANILIST", media_type, _id,
                                           now, expiration),
                            get_data_fresh(fresh), not_implemented, now),
                    "get_data", media_type, _id, "", fresh)

\* ApiInterface.get_user_data on MyanimelistApi or KitsuApi
AdapterGetUserData(id_type, media_type, _id, username, fresh) ==
    AdapterAnswered(id_type,
                    Through(get_media_user_data(cache, "ANILIST", media_type,
                                                _id, username, now,
                                                expiration),
                            get_user_data_fresh(fresh), not_implemented, now),
                    "get_user_data", media_type, _id, username, fresh)

\* ApiInterface.get_list_entry on MyanimelistApi or KitsuApi
AdapterGetListEntry(id_type, media_type, _id, username, fresh) ==
    AdapterAnswered(id_type,
                    Through(get_media_list_entry(cache, "ANILIST", media_type,
                                                 _id, username, now, now,
                                                 expiration),
                            get_list_entry_fresh(fresh), not_implemented,
                            now),
                    "get_list_entry", media_type, _id, username, fresh)

InitAdapters == InitWith({-1}, {DefaultWriteAfter})

NextAdapters ==
    \/ \E fresh \in FreshArgs, aM \in BOOLEAN :
          ApiGetData("ANIME", AsInt(1), fresh, aM, 0)
    \/ \E site \in SiteSites, data \in MediaPool({1, 2}) :
          AddMediaData(site, data, TRUE, FALSE)
    \/ \E site \in SiteSites, data \in UserPool({<<"ANIME", IdA>>}, {1, 2}) :
          AddMediaUserData(site, AsId(data.id), data, TRUE, FALSE)
    \/ \E a \in OtherAdapters, fresh \in FreshArgs :
          AdapterGetData(a, "ANIME", AsInt(1), fresh)
    \/ \E a \in OtherAdapters, u \in Usernames, fresh \in FreshArgs :
          AdapterGetUserData(a, "ANIME", AsInt(1), u, fresh)
    \/ \E a \in OtherAdapters, u \in Usernames, fresh \in FreshArgs :
          AdapterGetListEntry(a, "ANIME", AsInt(1), u, fresh)

SpecAdapters == InitAdapters /\ [][NextAdapters]_vars

\* what the store c returns for the item of a getter under the site of the
\* adapter the getter is called on
OwnLookup(c, o) ==
    CASE o.op = "get_data" ->
            get_media_data(c, o.adapter, o.media_type, o._id, now,
                           expiration).ret
      [] o.op = "get_user_data" ->
            get_media_user_data(c, o.adapter, o.media_type, o._id, o.username,
                                now, expiration).ret
      [] OTHER ->
            get_media_list_entry(c, o.adapter, o.media_type, o._id,
                                 o.username, now, now, expiration).ret

\* C35: the getters of an adapter look the item up under the site of the
\* adapter, the site its results are stored under: what MyanimelistApi or
\* KitsuApi, which fetch nothing, return is the record the store holds for
\* the item under MYANIMELIST or KITSU, never one cached under another site.
C35_AdapterReadsOwnSite ==
    [][("adapter" \in DOMAIN lastOp' /\ IsObject(ret'))
       => Value(ret') = Value(OwnLookup(cache, lastOp'))]_vars

-----------------------------------------------------------------------------
(* Two callers in get_anilist_id_from_mal_id at once, for the same
   MYANIMELIST id and media type.  Nothing is locked: a caller looks the memo
   up, sends its query, and stores the answer, and the other caller may take
   any of its steps in between. *)

Callers == {1, 2}

\* the MYANIMELIST ids asked for: one the remote knows, one it does not
FlightIds == {2, 5}

Caller(pc, result, value) == [pc |-> pc, result |-> result, ret |-> value]

\* the store is as constructed and the memo is cold
InitFlight ==
    /\ now = 0
    /\ expiration = DefaultExpiration
    /\ write_after = DefaultWriteAfter
    /\ change_count = 0
    /\ disk = write(generate_empty_cache)
    /\ cache = load(write(generate_empty_cache))
    /\ held \in {[media_type |-> mt, mal_id |-> i, callers |-> [c \in Callers |-> Caller("idle", NoneVal, NoId)]] :
                   mt \in MediaTypes, i \in FlightIds}
    /\ ret = NoneVal
    /\ lastOp = [op |-> "__init__"]
    /\ nAdds = 0
    /\ wrote = FALSE
    /\ added = EmptyMap
    /\ memo = EmptyMap
    /\ remote = 1

\* caller c is at pc and moves on as next, leaving the memo as m
Moved(c, pc, next, m, op) ==
    /\ held.callers[c].pc = pc
    /\ held' = [held EXCEPT !.callers[c] = next]
    /\ memo' = m
    /\ ret' = IF next.pc = "idle" THEN held.callers[c].ret ELSE NoneVal
    /\ lastOp' = [op |-> op, caller |-> c]
    /\ UNCHANGED <<now, expiration, write_after, change_count, cache, disk,
                   nAdds, wrote, added, remote>>

\* cached = self.cache.get_primitive(...); if cached is not None: return
FlightLookup(c) ==
    LET cached == get_primitive(memo, MalKey(held.media_type, held.mal_id))
    IN  Moved(c, "idle",
              IF cached # NoId THEN Caller("done", NoneVal, cached)
              ELSE Caller("missed", NoneVal, NoId),
              memo, "get_primitive")

\* result = self.__graphql_query(query, variables)
FlightQuery(c, answered) ==
    LET F == Find(held.media_type, "MYANIMELIST", held.mal_id)
    IN  Moved(c, "missed",
              Caller("answered", graphql_query(answered, F # {}, Data(F)), NoId),
              memo, "graphql_query")

\* if result is None: return None; else the id is memoized and returned
FlightMemoize(c) ==
    LET result == held.callers[c].result
    IN  IF result = NoneVal
        THEN Moved(c, "answered", Caller("done", NoneVal, NoId), memo,
                   "return")
        ELSE Moved(c, "answered",
                   Caller("done", result, Only(result.media)["ANILIST"]),
                   cache_mal_to_anilist_map(memo, held.media_type,
                                            held.mal_id,
                                            Only(result.media)["ANILIST"]),
                   "cache_mal_to_anilist_map")

\* the caller has its value and calls again
FlightAgain(c) ==
    Moved(c, "done", Caller("idle", NoneVal, NoId), memo, "again")

NextFlight ==
    \/ \E c \in Callers : FlightLookup(c)
    \/ \E c \in Callers, answered \in BOOLEAN : FlightQuery(c, answered)
    \/ \E c \in Callers : FlightMemoize(c)
    \/ \E c \in Callers : FlightAgain(c)

SpecFlight == InitFlight /\ [][NextFlight]_vars

\* the id the remote answers a translation of the pair asked for with, if
\* it has one
RemoteAnswer ==
    LET F == Find(held.media_type, "MYANIMELIST", held.mal_id)
    IN  IF F = {} THEN NoId ELSE Only(F)["ANILIST"]

\* C39: once both callers have finished, the memo maps the pair to the id
\* the remote returned: if the query of either caller was answered with an
\* id, the memo holds that id for the pair, and the memo never holds
\* anything else for it; a caller returns that id or None.  (That both
\* callers may send their query before either memoizes is the state of
\* C39_Witness.)
C39_MemoAfterBothFinish ==
    LET key == MalKey(held.media_type, held.mal_id)
    IN  /\ key \in DOMAIN memo => memo[key] = RemoteAnswer
        /\ (\A c \in Callers : held.callers[c].pc = "done")
           => /\ (\E c \in Callers : held.callers[c].result # NoneVal)
                 => (key \in DOMAIN memo /\ memo[key] = RemoteAnswer)
              /\ \A c \in Callers :
                    held.callers[c].ret \in {NoId, RemoteAnswer}

\* both callers have sent their query and have its answer, and the memo is
\* still cold: neither has memoized
C39_Witness ==
    /\ \A c \in Callers :
          /\ held.callers[c].pc = "answered"
          /\ held.callers[c].result # NoneVal
    /\ MalKey(held.media_type, held.mal_id) \notin DOMAIN memo

-----------------------------------------------------------------------------
(* One query to the remote service, step by step: the request is posted,
   the remote answers, and an answer "Too Many Requests." makes the query
   sleep and post the request again.  The clock plays no part in what the
   query does next and is left as it is; the query posts again by calling
   itself, and the depth of these calls is taken to have no limit. *)

\* the media a request asks for, by an id of either type
Requests ==
    {[media_type |-> mt, id_type |-> s, q |-> i] :
        mt \in MediaTypes, s \in {"MYANIMELIST", "ANILIST"}, i \in {1, 2, 3}}

\* what the remote answers a request with
Responses == {"limited", "errors", "data"}

\* the query asks for request, is at pc, has response for an answer, and
\* limited tells whether it was ever answered "Too Many Requests."
Query(pc, request, response, limited) ==
    [pc |-> pc, request |-> request, response |-> response, limited |-> limited]

InitQuery ==
    /\ now = 0
    /\ expiration = DefaultExpiration
    /\ write_after = DefaultWriteAfter
    /\ change_count = 0
    /\ disk = write(generate_empty_cache)
    /\ cache = load(write(generate_empty_cache))
    /\ held \in {Query("post", r, "", FALSE) : r \in Requests}
    /\ ret = NoneVal
    /\ lastOp = [op |-> "__init__"]
    /\ nAdds = 0
    /\ wrote = FALSE
    /\ added = EmptyMap
    /\ memo = EmptyMap
    /\ remote = 1

\* the query moves on as next and has value for a result
Stepped(next, value, op) ==
    /\ held' = next
    /\ ret' = value
    /\ lastOp' = [op |-> op]
    /\ UNCHANGED <<now, expiration, write_after, change_count, cache, disk,
                   nAdds, wrote, added, memo, remote>>

\* response = requests.post(url, json=...)
QueryPost ==
    /\ held.pc = "post"
    /\ Stepped(Query("wait", held.request, "", held.limited), NoneVal,
               "requests.post")

\* the remote answers: data only for a media it has
QueryRespond(response) ==
    /\ held.pc = "wait"
    /\ response \in Responses
    /\ response = "data"
       => Find(held.request.media_type, held.request.id_type,
               held.request.q) # {}
    /\ Stepped(Query("received", held.request, response, held.limited),
               NoneVal, "response")

\* a query that sleeps on after the rate limit and posts nothing again
QuerySleepOn ==
    /\ held.pc = "received"
    /\ held.response = "limited"
    /\ Stepped(Query("received", held.request, "limited", TRUE), NoneVal,
               "time.sleep")

\* time.sleep(70); return self.__graphql_query(query, variables)
QuerySleep ==
    /\ held.pc = "received"
    /\ held.response = "limited"
    /\ Stepped(Query("post", held.request, "", TRUE), NoneVal, "time.sleep")

\* return None, or return result["data"]
QueryReturn ==
    /\ held.pc = "received"
    /\ held.response # "limited"
    /\ LET F == Find(held.request.media_type, held.request.id_type,
                     held.request.q)
       IN  Stepped(Query("done", held.request, held.response, held.limited),
                   graphql_query(held.response = "data", F # {}, Data(F)),
                   "return")

NextQuery ==
    \/ QueryPost
    \/ \E response \in Responses : QueryRespond(response)
    \/ QuerySleep
    \/ QueryReturn

SpecQuery == InitQuery /\ [][NextQuery]_vars

\* The thread of the query runs on: each of its steps is taken once it can
\* be.  The remote answers a waiting query with something else than "Too
\* Many Requests." at some time, if the query waits for an answer again and
\* again.
QueryFairness ==
    /\ WF_vars(QueryPost)
    /\ WF_vars(QuerySleep)
    /\ WF_vars(QueryReturn)
    /\ SF_vars(\E response \in Responses \ {"limited"} : QueryRespond(response))

SpecQueryFair == SpecQuery /\ QueryFairness

====
